---- MODULE Spec2Model ----
(***************************************************************************)
(* Move classification, critical-move filter, game review pass and oracle  *)
(* access of the Scacchi chess application.                                *)
(*                                                                         *)
(* Python values are represented as follows.  None is the empty tuple and  *)
(* an optional value v is the one-element tuple <<v>>.  A dict is a        *)
(* function from its keys; the empty dict is the empty function.  A        *)
(* chess.Board / chess.Move pair is the record of the facts the analysis   *)
(* code reads from python-chess: side to move, number of legal moves,      *)
(* check, the moved and captured piece, the opposing attackers of the      *)
(* destination square after the move, gives_check and is_checkmate.        *)
(* Win probabilities are fixed-point numbers in units of 1/Scale percent.  *)
(***************************************************************************)
EXTENDS Integers, Sequences, FiniteSets, TLC

\* ------------------------------------------------------------------------
\* Python values
\* ------------------------------------------------------------------------
None == << >>

Some(v) == << v >>

\* truth value of a dict or of None: "if not d"
Falsy(d) == DOMAIN d = {}

\* chess.WHITE / chess.BLACK
WHITE == TRUE

BLACK == FALSE

\* chess piece types
PAWN == 1

KNIGHT == 2

BISHOP == 3

ROOK == 4

QUEEN == 5

KING == 6

\* ------------------------------------------------------------------------
\* config.py
\* ------------------------------------------------------------------------
PIECE_VALUES == << 100, 320, 330, 500, 900, 20000 >>

SACRIFICE_MIN_VALUE == 100

BRILLIANT_MAX_LOSS == 150

GREAT_MOVE_GAP == 50

GREAT_MOVE_ADVANTAGE == 100

GREAT_MOVE_TACTICAL_ADVANTAGE == 150

GREAT_MOVE_LOSS_THRESHOLD == 30

CRITICAL_THRESHOLD == 100

ALTERNATIVE_BAD_THRESHOLD == -100

MATE_VALUE_BASE == 30000

MATE_VALUE_DECREMENT == 100

CRITICAL_EVAL_THRESHOLD == 700

WINNING_CHANCES_MATE_THRESHOLD == 32000

\* ------------------------------------------------------------------------
\* accuracy_calculator.py: winning_chances_percent
\* 50 + 50 * clamp(2 / (1 + exp(-0.00368208 * cp)) - 1), tabulated from the
\* double-precision formula for cp = -TableMax, -TableMax + TableStep, ...,
\* TableMax, in units of 1/Scale percent.  From SaturationCp on the double
\* result is exactly 100.0 (resp. below 1e-13, 0 in these units, from
\* -SaturationCp down).
\* ------------------------------------------------------------------------
Scale == 1000000

TableMax == 1500

TableStep == 10

SaturationCp == 10000

WinTable == <<
    397749, 412605, 428015, 443997, 460573, 477766, 495596, 514089,
    533268, 553159, 573787, 595180, 617366, 640373, 664232, 688974,
    714631, 741236, 768824, 797430, 827092, 857848, 889737, 922800,
    957081, 992622, 1029469, 1067669, 1107271, 1148324, 1190882, 1234996,
    1280724, 1328123, 1377251, 1428169, 1480943, 1535635, 1592316, 1651053,
    1711919, 1774988, 1840337, 1908046, 1978196, 2050870, 2126157, 2204145,
    2284927, 2368598, 2455256, 2545002, 2637940, 2734176, 2833821, 2936987,
    3043792, 3154355, 3268798, 3387248, 3509835, 3636691, 3767954, 3903761,
    4044259, 4189592, 4339912, 4495372, 4656129, 4822345, 4994184, 5171814,
    5355405, 5545133, 5741174, 5943710, 6152924, 6369004, 6592139, 6822522,
    7060348, 7305815, 7559121, 7820469, 8090062, 8368105, 8654804, 8950366,
    9254999, 9568910, 9892308, 10225401, 10568393, 10921491, 11284898, 11658814,
    12043437, 12438963, 12845581, 13263478, 13692834, 14133824, 14586616, 15051371,
    15528242, 16017373, 16518898, 17032942, 17559617, 18099025, 18651255, 19216380,
    19794461, 20385545, 20989660, 21606819, 22237017, 22880231, 23536419, 24205519,
    24887450, 25582108, 26289369, 27009087, 27741093, 28485195, 29241180, 30008809,
    30787822, 31577934, 32378836, 33190198, 34011666, 34842861, 35683385, 36532817,
    37390714, 38256614, 39130033, 40010472, 40897410, 41790313, 42688631, 43591797,
    44499235, 45410356, 46324562, 47241245, 48159792, 49079584, 50000000, 50920416,
    51840208, 52758755, 53675438, 54589644, 55500765, 56408203, 57311369, 58209687,
    59102590, 59989528, 60869967, 61743386, 62609286, 63467183, 64316615, 65157139,
    65988334, 66809802, 67621164, 68422066, 69212178, 69991191, 70758820, 71514805,
    72258907, 72990913, 73710631, 74417892, 75112550, 75794481, 76463581, 77119769,
    77762983, 78393181, 79010340, 79614455, 80205539, 80783620, 81348745, 81900975,
    82440383, 82967058, 83481102, 83982627, 84471758, 84948629, 85413384, 85866176,
    86307166, 86736522, 87154419, 87561037, 87956563, 88341186, 88715102, 89078509,
    89431607, 89774599, 90107692, 90431090, 90745001, 91049634, 91345196, 91631895,
    91909938, 92179531, 92440879, 92694185, 92939652, 93177478, 93407861, 93630996,
    93847076, 94056290, 94258826, 94454867, 94644595, 94828186, 95005816, 95177655,
    95343871, 95504628, 95660088, 95810408, 95955741, 96096239, 96232046, 96363309,
    96490165, 96612752, 96731202, 96845645, 96956208, 97063013, 97166179, 97265824,
    97362060, 97454998, 97544744, 97631402, 97715073, 97795855, 97873843, 97949130,
    98021804, 98091954, 98159663, 98225012, 98288081, 98348947, 98407684, 98464365,
    98519057, 98571831, 98622749, 98671877, 98719276, 98765004, 98809118, 98851676,
    98892729, 98932331, 98970531, 99007378, 99042919, 99077200, 99110263, 99142152,
    99172908, 99202570, 99231176, 99258764, 99285369, 99311026, 99335768, 99359627,
    99382634, 99404820, 99426213, 99446841, 99466732, 99485911, 99504404, 99522234,
    99539427, 99556003, 99571985, 99587395, 99602251
>>

\* the same formula further out, for cp = FarMin, FarMin + FarStep, ...,
\* SaturationCp - FarStep (WinTableHigh) and for the negated arguments in
\* increasing order (WinTableLow)
FarMin == 2000

FarStep == 500

WinTableHigh == <<
    99936684, 99989949, 99998405, 99999747, 99999960, 99999994, 99999999, 100000000,
    100000000, 100000000, 100000000, 100000000, 100000000, 100000000, 100000000, 100000000
>>

WinTableLow == <<
    0, 0, 0, 0, 0, 0, 0, 0,
    0, 1, 6, 40, 253, 1595, 10051, 63316
>>

Sigmoid(cp) ==
    CASE cp >= SaturationCp -> 100 * Scale
      [] cp <= -SaturationCp -> 0
      [] cp >= -TableMax /\ cp <= TableMax /\ cp % TableStep = 0
           -> WinTable[(cp + TableMax) \div TableStep + 1]
      [] cp >= FarMin /\ cp < SaturationCp /\ cp % FarStep = 0
           -> WinTableHigh[(cp - FarMin) \div FarStep + 1]
      [] cp <= -FarMin /\ cp > -SaturationCp /\ cp % FarStep = 0
           -> WinTableLow[(cp + SaturationCp) \div FarStep]

\* mutant: the lower saturation test lacks the minus sign
winning_chances_unsigned_threshold(cp_eval) ==
    IF cp_eval >= WINNING_CHANCES_MATE_THRESHOLD THEN 100 * Scale
    ELSE IF cp_eval <= WINNING_CHANCES_MATE_THRESHOLD THEN 0
    ELSE Sigmoid(cp_eval)

winning_chances_percent(cp_eval) ==
    IF cp_eval >= WINNING_CHANCES_MATE_THRESHOLD THEN 100 * Scale
    ELSE IF cp_eval <= -WINNING_CHANCES_MATE_THRESHOLD THEN 0
    ELSE Sigmoid(cp_eval)

\* accuracy_calculator.py: move_accuracy_percent
\* clamp(103.1668 * exp(-0.04354415 * win_diff) - 3.166925 + 1, 0, 100),
\* tabulated from the double-precision formula for the losses win_diff that
\* the evaluations of a review pass produce (AccuracyLosses, in units of
\* 1/Scale percent, with the accuracy of each in AccuracyTable)
AccuracyLosses == <<
    2749436, 6429852, 8877539, 9179288, 11626975, 15307391,
    18056827, 26934366, 36532817, 45410356, 48159792, 51840208,
    54589644, 63467183, 100000000
>>

AccuracyTable == <<
    89359283, 75806240, 67923226, 67008308, 60014756, 50807000,
    44829803, 29762023, 18854803, 12114956, 10503491, 8627278,
    7409337, 4339060, 0
>>

AccuracyFormula(win_diff) ==
    AccuracyTable[CHOOSE k \in DOMAIN AccuracyLosses : AccuracyLosses[k] = win_diff]

move_accuracy_percent(win_before, win_after) ==
    IF win_after >= win_before THEN 100 * Scale
    ELSE AccuracyFormula(win_before - win_after)

\* ------------------------------------------------------------------------
\* stockfish_manager.py: evaluation conversions
\* ------------------------------------------------------------------------
Abs(n) == IF n < 0 THEN -n ELSE n

MateToCp(mate_val) ==
    (MATE_VALUE_BASE - Abs(mate_val) * MATE_VALUE_DECREMENT)
        * (IF mate_val > 0 THEN 1 ELSE -1)

\* evaluation: dict with 'type' ('cp' or 'mate') and 'value'
eval_to_centipawns(evaluation) ==
    IF Falsy(evaluation) THEN 0
    ELSE IF "type" \in DOMAIN evaluation /\ evaluation.type = "cp"
         THEN IF "value" \in DOMAIN evaluation THEN evaluation.value ELSE 0
    ELSE IF "type" \in DOMAIN evaluation /\ evaluation.type = "mate"
         THEN IF "value" \notin DOMAIN evaluation \/ evaluation.value = 0
              THEN 0
              ELSE MateToCp(evaluation.value)
    ELSE 0

\* eval_info: dict of get_top_moves() with 'Move', 'Centipawn', 'Mate'
convert_top_move_to_cp(eval_info) ==
    IF Falsy(eval_info) THEN 0
    ELSE IF "Centipawn" \in DOMAIN eval_info
         THEN IF eval_info.Centipawn # None THEN eval_info.Centipawn[1] ELSE 0
    ELSE IF "Mate" \in DOMAIN eval_info
         THEN IF eval_info.Mate = None \/ eval_info.Mate[1] = 0
              THEN 0
              ELSE MateToCp(eval_info.Mate[1])
    ELSE eval_to_centipawns(eval_info)

\* ------------------------------------------------------------------------
\* critical_moves.py
\* ------------------------------------------------------------------------
\* d.get('type') == 'cp'
TypeIsCp(d) == "type" \in DOMAIN d /\ d.type = "cp"

\* d.get('value', 0)
GetValue(d) == IF "value" \in DOMAIN d THEN d.value ELSE 0

is_move_critical_candidate(previous_eval, current_eval, board_before) ==
    IF TypeIsCp(previous_eval)
          /\ GetValue(previous_eval) >= CRITICAL_EVAL_THRESHOLD
    THEN FALSE
    ELSE IF ~TypeIsCp(previous_eval) /\ TypeIsCp(current_eval)
               /\ GetValue(current_eval) >= CRITICAL_EVAL_THRESHOLD
    THEN FALSE
    ELSE IF TypeIsCp(current_eval) /\ GetValue(current_eval) < 0
    THEN FALSE
    ELSE IF board_before.is_check
    THEN FALSE
    ELSE TRUE

\* ------------------------------------------------------------------------
\* advanced_move_classifier.py
\* ------------------------------------------------------------------------
classification_map ==
    [BEST |-> "best", EXCELLENT |-> "excellent", GOOD |-> "good",
     INACCURACY |-> "inaccuracy", MISTAKE |-> "mistake",
     BLUNDER |-> "blunder", BRILLIANT |-> "brilliant", CRITICAL |-> "great",
     FORCED |-> "forced", THEORY |-> "theory"]

SetMin(S) == CHOOSE m \in S : \A x \in S : m <= x

\* mutant: the value of the captured piece is not counted
_is_sacrifice_ignores_capture(board, move) ==
    IF move.moved_piece = KING THEN FALSE
    ELSE IF move.attackers = {} THEN FALSE
    ELSE LET moved_value == PIECE_VALUES[move.moved_piece]
             min_attacker_value ==
                 SetMin({PIECE_VALUES[a] : a \in move.attackers})
         IN  IF min_attacker_value < moved_value
             THEN moved_value - min_attacker_value >= SACRIFICE_MIN_VALUE
             ELSE FALSE

_is_sacrifice_move(board, move) ==
    IF move.moved_piece = KING THEN FALSE
    ELSE IF move.attackers = {} THEN FALSE
    ELSE LET moved_value == PIECE_VALUES[move.moved_piece]
             captured_value == IF move.captured_piece # None
                               THEN PIECE_VALUES[move.captured_piece[1]]
                               ELSE 0
             min_attacker_value ==
                 SetMin({PIECE_VALUES[a] : a \in move.attackers})
         IN  IF min_attacker_value < moved_value
             THEN moved_value - captured_value - min_attacker_value
                      >= SACRIFICE_MIN_VALUE
             ELSE FALSE

\* loss of the played move against the best candidate, for the side to move
OrientedLoss(turn, best_eval_cp, current_eval_cp) ==
    IF turn = WHITE THEN best_eval_cp - current_eval_cp
    ELSE current_eval_cp - best_eval_cp

\* evaluation seen from the side to move
Subjective(turn, eval_cp) == IF turn = WHITE THEN eval_cp ELSE -eval_cp

\* mutant: a loss of exactly BRILLIANT_MAX_LOSS is too much
_consider_brilliant_strict_loss(board_before, move, best_move_eval, current_eval) ==
    IF Falsy(best_move_eval) \/ Falsy(current_eval) THEN FALSE
    ELSE IF ~_is_sacrifice_move(board_before, move) THEN FALSE
    ELSE LET turn == board_before.turn
             best_eval_cp == convert_top_move_to_cp(best_move_eval)
             current_eval_cp == convert_top_move_to_cp(current_eval)
             loss == OrientedLoss(turn, best_eval_cp, current_eval_cp)
             subjective_advantage == Subjective(turn, current_eval_cp)
         IN  loss < BRILLIANT_MAX_LOSS /\ subjective_advantage >= 0

_consider_brilliant_classification(board_before, move, best_move_eval, current_eval) ==
    IF Falsy(best_move_eval) \/ Falsy(current_eval) THEN FALSE
    ELSE IF ~_is_sacrifice_move(board_before, move) THEN FALSE
    ELSE LET turn == board_before.turn
             best_eval_cp == convert_top_move_to_cp(best_move_eval)
             current_eval_cp == convert_top_move_to_cp(current_eval)
             loss == OrientedLoss(turn, best_eval_cp, current_eval_cp)
             subjective_advantage == Subjective(turn, current_eval_cp)
         IN  loss <= BRILLIANT_MAX_LOSS /\ subjective_advantage >= 0

\* best_move_eval.get('Move', '')
GetMove(d) == IF "Move" \in DOMAIN d THEN d.Move ELSE ""

_consider_great_classification(board_before, move, best_move_eval, current_eval, second_best_eval) ==
    IF Falsy(best_move_eval) \/ Falsy(second_best_eval) THEN FALSE
    ELSE LET turn == board_before.turn
             best_eval_cp == convert_top_move_to_cp(best_move_eval)
             current_eval_cp == convert_top_move_to_cp(current_eval)
             second_best_cp == convert_top_move_to_cp(second_best_eval)
             loss == OrientedLoss(turn, best_eval_cp, current_eval_cp)
             subjective_advantage == Subjective(turn, current_eval_cp)
             best_move_uci == GetMove(best_move_eval)
             alternative_gap == OrientedLoss(turn, best_eval_cp, second_best_cp)
             tactical == \/ move.captured_piece # None
                         \/ move.gives_check
                         \/ _is_sacrifice_move(board_before, move)
             \* Caso 3
             avoids_loss ==
                 /\ subjective_advantage >= 0
                 /\ subjective_advantage < 100
                 /\ Subjective(turn, second_best_cp) < ALTERNATIVE_BAD_THRESHOLD
         IN  IF move.uci = best_move_uci
             THEN \* Caso 1
                  IF /\ alternative_gap >= GREAT_MOVE_GAP
                     /\ subjective_advantage >= GREAT_MOVE_ADVANTAGE
                  THEN TRUE
                  ELSE avoids_loss
             ELSE IF loss <= GREAT_MOVE_LOSS_THRESHOLD
             THEN \* Caso 2
                  IF tactical
                  THEN subjective_advantage >= GREAT_MOVE_TACTICAL_ADVANTAGE
                  ELSE avoids_loss
             ELSE avoids_loss

_consider_critical_classification(prev_eval, second_best_eval, board_before) ==
    IF Falsy(second_best_eval) THEN FALSE
    ELSE IF ~is_move_critical_candidate(prev_eval, prev_eval, board_before)
    THEN FALSE
    ELSE LET best_eval_cp == convert_top_move_to_cp(prev_eval)
             second_best_cp == convert_top_move_to_cp(second_best_eval)
             advantage_loss ==
                 OrientedLoss(board_before.turn, best_eval_cp, second_best_cp)
         IN  advantage_loss > CRITICAL_THRESHOLD

Max(a, b) == IF a >= b THEN a ELSE b

\* the oriented win-probability loss, in units of 1/Scale percent
PointLoss(best_eval_cp, current_eval_cp, turn) ==
    LET win_chance_after_best == winning_chances_percent(best_eval_cp)
        win_chance_after_played == winning_chances_percent(current_eval_cp)
    IN  Max(0, IF turn = WHITE
               THEN win_chance_after_best - win_chance_after_played
               ELSE win_chance_after_played - win_chance_after_best)

_point_loss_classify(best_eval_cp, current_eval_cp, turn) ==
    LET loss == PointLoss(best_eval_cp, current_eval_cp, turn)
    IN  IF loss <= 1 * Scale THEN "BEST"
        ELSE IF loss <= 5 * Scale THEN "EXCELLENT"
        ELSE IF loss <= 10 * Scale THEN "GOOD"
        ELSE IF loss <= 20 * Scale THEN "INACCURACY"
        ELSE IF loss <= 30 * Scale THEN "MISTAKE"
        ELSE "BLUNDER"

\* "if opening_name:" is true for a non-empty string
Truthy(opt_str) == opt_str # None /\ opt_str[1] # ""

\* Steps 4-8 (lines 301-333): baseline label and the brilliant, great and
\* critical overrides.  current_eval is what self.analyzer.get_evaluation()
\* reports for the position after the move.
BaselineAndOverrides(board_before, move, top_moves, current_eval) ==
    LET turn == board_before.turn
        best_move_eval == IF Len(top_moves) > 0 THEN top_moves[1] ELSE << >>
        second_best_eval == IF Len(top_moves) > 1 THEN top_moves[2] ELSE None
        best_eval_cp == convert_top_move_to_cp(best_move_eval)
        current_eval_cp == convert_top_move_to_cp(current_eval)
        best_move_uci == GetMove(best_move_eval)
        top_move_played == (move.uci = best_move_uci)
        classification ==
            IF top_move_played THEN classification_map.BEST
            ELSE _point_loss_classify(best_eval_cp, current_eval_cp, turn)
    IN  IF _consider_brilliant_classification(
               board_before, move, best_move_eval, current_eval)
        THEN classification_map.BRILLIANT
        ELSE IF _consider_great_classification(
                    board_before, move, best_move_eval, current_eval,
                    second_best_eval)
             THEN classification_map.CRITICAL
        ELSE IF top_move_played
                  /\ _consider_critical_classification(
                         best_move_eval, second_best_eval, board_before)
             THEN classification_map.CRITICAL
        ELSE classification

\* mutant: a position with exactly one legal move is not forced
classify_move_forced_lt(board_before, move, top_moves, opening_name, analyzer_eval) ==
    IF board_before.legal_moves < 1 THEN classification_map.FORCED
    ELSE IF Truthy(opening_name) THEN classification_map.THEORY
    ELSE IF move.is_checkmate THEN classification_map.BEST
    ELSE BaselineAndOverrides(board_before, move, top_moves, analyzer_eval)

\* mutant: the checkmate rule is missing
classify_move_no_mate_rule(board_before, move, top_moves, opening_name, analyzer_eval) ==
    IF board_before.legal_moves <= 1 THEN classification_map.FORCED
    ELSE IF Truthy(opening_name) THEN classification_map.THEORY
    ELSE BaselineAndOverrides(board_before, move, top_moves, analyzer_eval)

\* analyzer_eval is the oracle's evaluation of the position after the move
\* (asked for only when the first three rules have not returned)
classify_move(board_before, move, top_moves, opening_name, analyzer_eval) ==
    IF board_before.legal_moves <= 1 THEN classification_map.FORCED
    ELSE IF Truthy(opening_name) THEN classification_map.THEORY
    ELSE IF move.is_checkmate THEN classification_map.BEST
    ELSE BaselineAndOverrides(board_before, move, top_moves, analyzer_eval)

\* ------------------------------------------------------------------------
\* Bounds and input sets
\* ------------------------------------------------------------------------
\* largest number of legal moves of a pre-move position
MaxLegal == 2

\* longest mating line the oracle reports
MaxMate == 1

\* centipawn scores the oracle reports
CpVals == {-800, -150, -50, 0, 50, 150, 800}

MateVals == {n \in -MaxMate .. MaxMate : n # 0}

\* Stockfish.get_evaluation(): {'type': 'cp' | 'mate', 'value': int}
Evaluations ==
    [type : {"cp"}, value : CpVals] \cup [type : {"mate"}, value : MateVals]

\* entries of Stockfish.get_top_moves(): both keys are always present and
\* the one that does not apply is None
TopMoveEntries(uci) ==
    {[Move |-> uci, Centipawn |-> Some(v), Mate |-> None] : v \in CpVals}
    \cup {[Move |-> uci, Centipawn |-> None, Mate |-> Some(n)] : n \in MateVals}

\* the oracle's own score of a candidate, from White's side
OracleScore(entry) ==
    IF entry.Centipawn # None THEN entry.Centipawn[1]
    ELSE MateToCp(entry.Mate[1])

\* get_top_moves() ranks the candidates best first for the side to move
Ranked(turn, top_moves) ==
    \A i \in 1 .. Len(top_moves) - 1 :
        Subjective(turn, OracleScore(top_moves[i]))
            >= Subjective(turn, OracleScore(top_moves[i + 1]))

PlayedUci == "e2e4"

OtherUci == "d2d4"

\* ranked candidate lists (the classifier reads the first two entries only)
TopMoveLists ==
    {<< >>}
    \cup {<<a>> : a \in TopMoveEntries(PlayedUci) \cup TopMoveEntries(OtherUci)}
    \cup {<<a, b>> : a \in TopMoveEntries(PlayedUci), b \in TopMoveEntries(OtherUci)}
    \cup {<<a, b>> : a \in TopMoveEntries(OtherUci), b \in TopMoveEntries(PlayedUci)}

Boards == [turn : BOOLEAN, legal_moves : 0 .. MaxLegal, is_check : BOOLEAN]

\* facts of the played move on the pre-move board; a mating move gives check
PlayedMoves ==
    {m \in [uci : {PlayedUci}, moved_piece : {KNIGHT},
            captured_piece : {None, Some(PAWN)},
            attackers : {{}, {PAWN}},
            gives_check : BOOLEAN, is_checkmate : BOOLEAN] :
        m.is_checkmate => m.gives_check}

OpeningNames == {None, Some(""), Some("Italian Game")}

\* ------------------------------------------------------------------------
\* main.py: game review pass (_run_analysis_thread) and its UI poller
\* ------------------------------------------------------------------------
\* longest reviewed game, in plies
MaxMoves == 2

\* the move played at each ply of the reviewed game
ReviewUcis == <<"e2e4", "e7e5", "d1h5", "g8f6", "h5f7">>

\* a candidate the oracle may prefer to the played move
AlternativeUci == "a2a3"

TurnAtPly(k) == IF k % 2 = 1 THEN WHITE ELSE BLACK

\* kinds of played moves: quiet, sacrifice, mating
QuietMove(uci) ==
    [uci |-> uci, moved_piece |-> KNIGHT, captured_piece |-> None,
     attackers |-> {}, gives_check |-> FALSE, is_checkmate |-> FALSE]

SacrificeMove(uci) ==
    [uci |-> uci, moved_piece |-> KNIGHT, captured_piece |-> None,
     attackers |-> {PAWN}, gives_check |-> FALSE, is_checkmate |-> FALSE]

MatingMove(uci) ==
    [uci |-> uci, moved_piece |-> QUEEN, captured_piece |-> None,
     attackers |-> {}, gives_check |-> TRUE, is_checkmate |-> TRUE]

\* ply k of a game: the position before the move and the move's facts
PliesAt(k) ==
    [board : [turn : {TurnAtPly(k)}, legal_moves : {1, 2}, is_check : {FALSE}],
     move : {QuietMove(ReviewUcis[k]), SacrificeMove(ReviewUcis[k]),
             MatingMove(ReviewUcis[k])}]

\* finished games of 1 .. MaxMoves plies; only the last move can mate
Games ==
    UNION {{g \in [1 .. n -> UNION {PliesAt(k) : k \in 1 .. n}] :
               \A k \in 1 .. n :
                   /\ g[k] \in PliesAt(k)
                   /\ (g[k].move.is_checkmate => k = n)} : n \in 1 .. MaxMoves}

Sign(turn) == IF turn = WHITE THEN 1 ELSE -1

CpEntry(uci, v) == [Move |-> uci, Centipawn |-> Some(v), Mate |-> None]

\* what get_top_moves(3) may answer for a position with the given side to
\* move: nothing, the played move alone, or a better move before it
ReviewTopLists(turn, uci) ==
    {<< >>,
     <<CpEntry(uci, 50 * Sign(turn))>>,
     <<CpEntry(AlternativeUci, 150 * Sign(turn)),
       CpEntry(uci, -150 * Sign(turn))>>}

\* what get_evaluation() may answer
ReviewEvaluations(turn) ==
    {[type |-> "cp", value |-> 50 * Sign(turn)],
     [type |-> "cp", value |-> -150 * Sign(turn)],
     [type |-> "mate", value |-> Sign(turn)]}

\* str.lower() on the strings classify_move returns
Lower(s) ==
    CASE s = "BEST" -> "best"
      [] s = "EXCELLENT" -> "excellent"
      [] s = "GOOD" -> "good"
      [] s = "INACCURACY" -> "inaccuracy"
      [] s = "MISTAKE" -> "mistake"
      [] s = "BLUNDER" -> "blunder"
      [] OTHER -> s

\* classifier.classification_map.get(classification_raw, classification_raw.lower())
ClassificationKey(classification_raw) ==
    IF classification_raw \in DOMAIN classification_map
    THEN classification_map[classification_raw]
    ELSE Lower(classification_raw)

\* keys of EVAL_CLASSIFICATIONS and EVAL_COLORS
EVAL_CLASSIFICATIONS ==
    {"brilliant", "great", "best", "excellent", "good", "inaccuracy",
     "mistake", "blunder", "forced", "theory"}

InitialEvalCp == 20

\* build_board_from_moves(moves, move_index): the moves pushed on a new board
build_board_from_moves(moves, move_index) ==
    [k \in 1 .. move_index + 1 |-> moves[k]]

\* ------------------------------------------------------------------------
\* State
\* ------------------------------------------------------------------------
VARIABLES
    args,          \* a call of a pure analysis function
    ret,           \* its result, None before the call
    frame,         \* locals of a call that is inside its loop, None otherwise
    game,          \* the plies of the finished game under review
    review,        \* locals of the thread running _run_analysis_thread; the
                   \* *_plies fields record the ply that appended each entry
                   \* of win_chances, white_accuracies and black_accuracies
    review_queue,  \* self.review_queue
    review_ui,     \* review window state kept by _process_review_queue
    _instances,    \* StockfishManager._instances
    in_flight,     \* oracle queries issued and not yet answered
    threads,       \* the threads that use an oracle instance
    app            \* the ChessApp object with its GameLogic, its evaluation
                   \* threads and its scheduled jobs; None outside a session

vars ==
    <<args, ret, frame, game, review, review_queue, review_ui, _instances,
      in_flight, threads, app>>

pureVars == <<args, ret, frame>>

reviewVars == <<game, review, review_queue, review_ui>>

oracleVars == <<_instances, in_flight, threads>>

appVars == <<app>>

IdlePure == args = [fn |-> "none"] /\ ret = None /\ frame = None

IdleReview ==
    /\ game = << >>
    /\ review = [pc |-> "idle"]
    /\ review_queue = << >>
    /\ review_ui = [polling |-> FALSE]

IdleOracle ==
    /\ _instances = << >>
    /\ in_flight = {}
    /\ threads = << >>

IdleApp == app = None

\* ------------------------------------------------------------------------
\* Calls of the pure analysis functions: args holds the call, ret its result
\* ------------------------------------------------------------------------
InitClassify ==
    /\ args \in {a \in [fn : {"classify_move"}, board_before : Boards,
                        move : PlayedMoves, top_moves : TopMoveLists,
                        opening_name : OpeningNames,
                        analyzer_eval : Evaluations] :
                    Ranked(a.board_before.turn, a.top_moves)}
    /\ ret = None
    /\ frame = None
    /\ IdleReview
    /\ IdleOracle
    /\ IdleApp

ClassifyMove ==
    /\ args.fn = "classify_move"
    /\ ret = None
    /\ ret' = Some(classify_move(args.board_before, args.move, args.top_moves,
                                 args.opening_name, args.analyzer_eval))
    /\ UNCHANGED <<args, frame, reviewVars, oracleVars, appVars>>

NextClassify == ClassifyMove

SpecClassify == InitClassify /\ [][NextClassify]_vars

\* evaluations around the thresholds of the critical-move filter
CriticalEvaluations ==
    [type : {"cp"}, value : {-50, -1, 0, 699, 700, 800}]
    \cup [type : {"mate"}, value : MateVals]

InitCritical ==
    /\ args \in [fn : {"is_move_critical_candidate"},
                 previous_eval : CriticalEvaluations,
                 current_eval : CriticalEvaluations,
                 board_before : Boards]
    /\ ret = None
    /\ frame = None
    /\ IdleReview
    /\ IdleOracle
    /\ IdleApp

IsMoveCriticalCandidate ==
    /\ args.fn = "is_move_critical_candidate"
    /\ ret = None
    /\ ret' = Some(is_move_critical_candidate(
                       args.previous_eval, args.current_eval,
                       args.board_before))
    /\ UNCHANGED <<args, frame, reviewVars, oracleVars, appVars>>

NextCritical == IsMoveCriticalCandidate

SpecCritical == InitCritical /\ [][NextCritical]_vars

\* ------------------------------------------------------------------------
\* Game review: ChessApp.start_game_review, _run_analysis_thread,
\* _process_review_queue, _navigate_review_move
\* ------------------------------------------------------------------------
InitReview ==
    /\ IdlePure
    /\ IdleOracle
    /\ game \in Games
    /\ review = [pc |-> "idle"]
    /\ review_queue = << >>
    /\ review_ui = [polling |-> FALSE]
    /\ IdleApp

\* start_game_review: opens the window, starts the thread and the poller
StartGameReview ==
    /\ review.pc = "idle"
    /\ review' = [pc |-> "start"]
    /\ review_ui' = [polling |-> TRUE, window |-> "status", progress |-> None,
                     review_data |-> << >>, board |-> None]
    /\ UNCHANGED <<game, review_queue, pureVars, oracleVars, appVars>>

\* lines 834-838 succeed; lines 843-852 set up the pass
AnalyzerReady ==
    /\ review.pc = "start"
    /\ review' = [pc |-> "loop", i |-> 0, top_moves |-> << >>,
                  results |-> << >>,
                  white_accuracies |-> << >>, black_accuracies |-> << >>,
                  win_chances |-> <<winning_chances_percent(InitialEvalCp)>>,
                  prev_eval_cp |-> InitialEvalCp,
                  win_plies |-> <<0>>, white_plies |-> << >>,
                  black_plies |-> << >>]
    /\ UNCHANGED <<game, review_queue, review_ui, pureVars, oracleVars, appVars>>

\* mutant: the exception handler reports the error and does not return
AnalyzerUnavailable_no_return ==
    /\ review.pc = "start"
    /\ review_queue' = Append(review_queue, [type |-> "error"])
    /\ review' = [pc |-> "loop", i |-> 0, top_moves |-> << >>,
                  results |-> << >>,
                  white_accuracies |-> << >>, black_accuracies |-> << >>,
                  win_chances |-> <<winning_chances_percent(InitialEvalCp)>>,
                  prev_eval_cp |-> InitialEvalCp,
                  win_plies |-> <<0>>, white_plies |-> << >>,
                  black_plies |-> << >>]
    /\ UNCHANGED <<game, review_ui, pureVars, oracleVars, appVars>>

\* get_instance returned None: set_depth raises, the handler reports it
AnalyzerUnavailable ==
    /\ review.pc = "start"
    /\ review_queue' = Append(review_queue, [type |-> "error"])
    /\ review' = [pc |-> "failed"]
    /\ UNCHANGED <<game, review_ui, pureVars, oracleVars, appVars>>

\* lines 854-865: progress message, top moves of the pre-move position; an
\* empty answer pushes the move and continues with the next one
ReviewTopMoves ==
    /\ review.pc = "loop"
    /\ review.i < Len(game)
    /\ LET ply == game[review.i + 1]
       IN  \E tm \in ReviewTopLists(ply.board.turn, ply.move.uci) :
               /\ review_queue' =
                      Append(review_queue,
                             [type |-> "progress", i |-> review.i + 1,
                              n |-> Len(game)])
               /\ review' =
                      IF tm = << >>
                      THEN [review EXCEPT !.i = review.i + 1]
                      ELSE [review EXCEPT !.pc = "classify", !.top_moves = tm]
    /\ UNCHANGED <<game, review_ui, pureVars, oracleVars, appVars>>

\* lines 867-904: classification, evaluation after the move, record
ReviewClassifyAndRecord ==
    /\ review.pc = "classify"
    /\ LET ply == game[review.i + 1]
           turn == ply.board.turn
       IN  \E classifier_eval \in ReviewEvaluations(turn),
              analyzer_eval \in ReviewEvaluations(turn) :
               LET classification_raw ==
                       classify_move(ply.board, ply.move, review.top_moves,
                                     None, classifier_eval)
                   classification_key == ClassificationKey(classification_raw)
                   mate == ply.move.is_checkmate
                   current_eval_info ==
                       IF mate
                       THEN [type |-> "mate", value |-> Sign(turn)]
                       ELSE analyzer_eval
                   current_eval_cp ==
                       IF mate
                       THEN WINNING_CHANCES_MATE_THRESHOLD * Sign(turn)
                       ELSE eval_to_centipawns(analyzer_eval)
                   win_chance_before_white ==
                       winning_chances_percent(review.prev_eval_cp)
                   win_chance_after_white ==
                       winning_chances_percent(current_eval_cp)
                   win_chance_before_player ==
                       IF turn = WHITE THEN win_chance_before_white
                       ELSE 100 * Scale - win_chance_before_white
                   win_chance_after_player ==
                       IF turn = WHITE THEN win_chance_after_white
                       ELSE 100 * Scale - win_chance_after_white
                   accuracy ==
                       move_accuracy_percent(win_chance_before_player,
                                             win_chance_after_player)
               IN  \* lines 899-901 look the key up (a KeyError otherwise)
                   /\ classification_key \in EVAL_CLASSIFICATIONS
                   /\ review' =
                          [review EXCEPT
                              !.pc = "loop",
                              !.i = review.i + 1,
                              !.top_moves = << >>,
                              !.win_chances = Append(@, win_chance_after_white),
                              !.white_accuracies =
                                  IF turn = WHITE THEN Append(@, accuracy) ELSE @,
                              !.black_accuracies =
                                  IF turn = WHITE THEN @ ELSE Append(@, accuracy),
                              !.win_plies = Append(@, review.i + 1),
                              !.white_plies =
                                  IF turn = WHITE THEN Append(@, review.i + 1) ELSE @,
                              !.black_plies =
                                  IF turn = WHITE THEN @ ELSE Append(@, review.i + 1),
                              !.results =
                                  Append(@, [move |-> ply.move.uci,
                                             classification_key |-> classification_key,
                                             evaluation |-> current_eval_info]),
                              !.prev_eval_cp = current_eval_cp]
    /\ UNCHANGED <<game, review_queue, review_ui, pureVars, oracleVars, appVars>>

\* line 910: the pass is over
ReviewDone ==
    /\ review.pc = "loop"
    /\ review.i = Len(game)
    /\ review_queue' =
           Append(review_queue, [type |-> "done", results |-> review.results])
    /\ review' = [review EXCEPT !.pc = "done"]
    /\ UNCHANGED <<game, review_ui, pureVars, oracleVars, appVars>>

\* _navigate_review_move(value)
NavigatedTo(ui, move_index) ==
    IF ui.review_data = << >> THEN ui
    ELSE [ui EXCEPT
             !.board =
                 Some(build_board_from_moves(
                          [k \in 1 .. Len(ui.review_data) |-> ui.review_data[k].move],
                          move_index))]

\* _process_review_queue with a message waiting (on queue.Empty it only
\* reschedules itself, which changes nothing)
ProcessReviewQueue ==
    /\ review_ui.polling
    /\ review_queue # << >>
    /\ LET message == Head(review_queue)
       IN  review_ui' =
               CASE message.type = "progress" ->
                        [review_ui EXCEPT !.progress = Some(<<message.i, message.n>>)]
                 [] message.type = "done" ->
                        NavigatedTo([review_ui EXCEPT
                                        !.polling = FALSE,
                                        !.window = "content",
                                        !.review_data = message.results],
                                    Len(message.results) - 1)
                 [] message.type = "error" ->
                        [review_ui EXCEPT !.polling = FALSE,
                                          !.window = "destroyed"]
    /\ review_queue' = Tail(review_queue)
    /\ UNCHANGED <<game, review, pureVars, oracleVars, appVars>>

\* the slider and the navigation buttons of the review window
NavigateReviewMove ==
    /\ review_ui.polling = FALSE
    /\ "window" \in DOMAIN review_ui
    /\ review_ui.window = "content"
    /\ \E value \in 0 .. Len(review_ui.review_data) - 1 :
           /\ review_ui' = NavigatedTo(review_ui, value)
           /\ review_ui' # review_ui
    /\ UNCHANGED <<game, review, review_queue, pureVars, oracleVars, appVars>>

NextReview ==
    \/ StartGameReview
    \/ AnalyzerReady
    \/ AnalyzerUnavailable
    \/ ReviewTopMoves
    \/ ReviewClassifyAndRecord
    \/ ReviewDone
    \/ ProcessReviewQueue
    \/ NavigateReviewMove

SpecReview == InitReview /\ [][NextReview]_vars

\* ------------------------------------------------------------------------
\* Oracle instances and the threads that query them:
\* StockfishManager.get_instance, GameLogic.get_ai_move (UI thread),
\* _load_stockfish_background / _eval_loop, _run_analysis_thread
\* ------------------------------------------------------------------------
\* game reviews the user starts
MaxReviews == 2

\* oracle queries one thread issues
MaxQueries == 2

AiThread == <<"ai", 0>>

EvalThread == <<"eval", 0>>

ReviewThreads == {<<"review", r>> : r \in 1 .. MaxReviews}

Threads == {AiThread, EvalThread} \cup ReviewThreads

\* the key argument of get_instance: depth and threads are 15 and 1 at all
\* three call sites, so the key decides the instance_key
KeyOf(t) ==
    CASE t = AiThread -> "game_player"
      [] t = EvalThread -> "analyzer"
      [] OTHER -> "review_analyzer"

\* the Stockfish object thread t constructs for its key
NewInstance(t) == [key |-> KeyOf(t), creator |-> t]

\* dict update cls._instances[instance_key] = instance
DictSet(d, k, v) == [x \in DOMAIN d \cup {k} |-> IF x = k THEN v ELSE d[x]]

\* GameLogic.__init__ has obtained the player's engine; no game and no
\* review has been started
InitOracle ==
    /\ IdlePure
    /\ IdleReview
    /\ _instances = DictSet(<< >>, KeyOf(AiThread), NewInstance(AiThread))
    /\ in_flight = {}
    /\ threads =
           [t \in Threads |->
               IF t = AiThread
               THEN [pc |-> "ready", handle |-> Some(NewInstance(AiThread)),
                     queries |-> 0]
               ELSE [pc |-> "idle", handle |-> None, queries |-> 0]]
    /\ IdleApp

UiThreadFree == threads[AiThread].pc = "ready"

\* start_game: the analyzer is loaded in the background and drives _eval_loop
StartGame ==
    /\ UiThreadFree
    /\ threads[EvalThread].pc = "idle"
    /\ threads' = [threads EXCEPT ![EvalThread].pc = "get_instance"]
    /\ UNCHANGED <<_instances, in_flight, pureVars, reviewVars, appVars>>

\* start_game_review line 815: a new thread runs _run_analysis_thread
SpawnAnalysisThread(t) ==
    /\ UiThreadFree
    /\ t \in ReviewThreads
    /\ threads[t].pc = "idle"
    /\ threads' = [threads EXCEPT ![t].pc = "get_instance"]
    /\ UNCHANGED <<_instances, in_flight, pureVars, reviewVars, appVars>>

\* get_instance line 36: "if instance_key not in cls._instances"
GetInstanceLookup(t) ==
    /\ threads[t].pc = "get_instance"
    /\ threads' =
           IF KeyOf(t) \in DOMAIN _instances
           THEN [threads EXCEPT ![t].pc = "ready",
                                ![t].handle = Some(_instances[KeyOf(t)])]
           ELSE [threads EXCEPT ![t].pc = "construct"]
    /\ UNCHANGED <<_instances, in_flight, pureVars, reviewVars, appVars>>

\* get_instance lines 38-43: the engine process is started and cached
GetInstanceStore(t) ==
    /\ threads[t].pc = "construct"
    /\ _instances' = DictSet(_instances, KeyOf(t), NewInstance(t))
    /\ threads' = [threads EXCEPT ![t].pc = "return"]
    /\ UNCHANGED <<in_flight, pureVars, reviewVars, appVars>>

\* get_instance line 48: "return cls._instances[instance_key]"
GetInstanceReturn(t) ==
    /\ threads[t].pc = "return"
    /\ threads' = [threads EXCEPT ![t].pc = "ready",
                                  ![t].handle = Some(_instances[KeyOf(t)])]
    /\ UNCHANGED <<_instances, in_flight, pureVars, reviewVars, appVars>>

\* set_fen_position / get_top_moves / get_evaluation / get_best_move_time:
\* the command is written to the engine process
BeginQuery(t) ==
    /\ threads[t].pc = "ready"
    /\ threads[t].queries < MaxQueries
    /\ in_flight' =
           in_flight \cup {[thread |-> t, instance |-> threads[t].handle[1]]}
    /\ threads' = [threads EXCEPT ![t].pc = "query"]
    /\ UNCHANGED <<_instances, pureVars, reviewVars, appVars>>

\* the engine's answer has been read
EndQuery(t) ==
    /\ threads[t].pc = "query"
    /\ in_flight' =
           in_flight \ {[thread |-> t, instance |-> threads[t].handle[1]]}
    /\ threads' = [threads EXCEPT ![t].pc = "ready",
                                  ![t].queries = threads[t].queries + 1]
    /\ UNCHANGED <<_instances, pureVars, reviewVars, appVars>>

\* _run_analysis_thread returns after its last move
AnalysisThreadReturns(t) ==
    /\ t \in ReviewThreads
    /\ threads[t].pc = "ready"
    /\ threads' = [threads EXCEPT ![t].pc = "finished"]
    /\ UNCHANGED <<_instances, in_flight, pureVars, reviewVars, appVars>>

NextOracle ==
    \/ StartGame
    \/ \E t \in ReviewThreads : SpawnAnalysisThread(t)
    \/ \E t \in Threads : GetInstanceLookup(t)
    \/ \E t \in Threads : GetInstanceStore(t)
    \/ \E t \in Threads : GetInstanceReturn(t)
    \/ \E t \in Threads : BeginQuery(t)
    \/ \E t \in Threads : EndQuery(t)
    \/ \E t \in ReviewThreads : AnalysisThreadReturns(t)

SpecOracle == InitOracle /\ [][NextOracle]_vars

\* ------------------------------------------------------------------------
\* Properties of classify_move (checked under SpecClassify)
\* ------------------------------------------------------------------------
Classified == args.fn = "classify_move" /\ ret # None

\* the first three rules (forced, theory, checkmate) have not returned
PastStep3 ==
    /\ Classified
    /\ args.board_before.legal_moves > 1
    /\ ~Truthy(args.opening_name)
    /\ ~args.move.is_checkmate

ArgBestEval == IF Len(args.top_moves) > 0 THEN args.top_moves[1] ELSE << >>

ArgSecondEval == IF Len(args.top_moves) > 1 THEN args.top_moves[2] ELSE None

ArgBestCp == convert_top_move_to_cp(ArgBestEval)

ArgSecondCp == convert_top_move_to_cp(ArgSecondEval)

ArgCurrentCp == eval_to_centipawns(args.analyzer_eval)

ArgTurn == args.board_before.turn

ArgTopMovePlayed == args.move.uci = GetMove(ArgBestEval)

ArgCpLoss == OrientedLoss(ArgTurn, ArgBestCp, ArgCurrentCp)

ArgAdvantage == Subjective(ArgTurn, ArgCurrentCp)

ArgSacrifice == _is_sacrifice_move(args.board_before, args.move)

ArgBrilliant == ArgSacrifice /\ ArgCpLoss <= 150 /\ ArgAdvantage >= 0

ArgGreat ==
    _consider_great_classification(args.board_before, args.move, ArgBestEval,
                                   args.analyzer_eval, ArgSecondEval)

ArgCritical ==
    /\ ArgTopMovePlayed
    /\ _consider_critical_classification(ArgBestEval, ArgSecondEval,
                                         args.board_before)

\* C1: a pre-move position with at most one legal move classifies as forced,
\* whatever the move, the candidates, the opening name and the evaluations
C1_ForcedWhenAtMostOneLegalMove ==
    (Classified /\ args.board_before.legal_moves <= 1) => ret = Some("forced")

C1_Witness ==
    /\ Classified
    /\ args.board_before.legal_moves = 1
    /\ args.move.is_checkmate
    /\ Truthy(args.opening_name)
    /\ Len(args.top_moves) = 2
    /\ ret = Some("forced")

\* C2 as stated: a move whose resulting position is checkmate classifies as
\* best for every number of legal moves and with or without an opening name
C2_MateAlwaysBest ==
    (Classified /\ args.move.is_checkmate) => ret = Some("best")

\* C2 amended: a move whose resulting position is checkmate classifies as
\* best when the pre-move position has more than one legal move and no
\* opening name is supplied
C2_MateBestAfterForcedAndTheory ==
    (/\ Classified
     /\ args.move.is_checkmate
     /\ args.board_before.legal_moves > 1
     /\ ~Truthy(args.opening_name))
        => ret = Some("best")

C2_Witness ==
    /\ Classified
    /\ args.move.is_checkmate
    /\ args.board_before.legal_moves > 1
    /\ ~Truthy(args.opening_name)
    /\ ~ArgTopMovePlayed
    /\ ret = Some("best")

Labels == {classification_map[k] : k \in DOMAIN classification_map}

\* C3: every value classify_move returns is one of the ten labels that are
\* the values of classification_map
C3_ResultIsLabel == Classified => ret[1] \in Labels

\* bucket of a win-probability loss given in units of 1/Scale percent
Bucket(loss) ==
    IF loss <= 1 * Scale THEN "best"
    ELSE IF loss <= 5 * Scale THEN "excellent"
    ELSE IF loss <= 10 * Scale THEN "good"
    ELSE IF loss <= 20 * Scale THEN "inaccuracy"
    ELSE IF loss <= 30 * Scale THEN "mistake"
    ELSE "blunder"

ArgWinLoss ==
    LET d == winning_chances_percent(ArgBestCp)
                 - winning_chances_percent(ArgCurrentCp)
    IN  Max(0, IF ArgTurn = WHITE THEN d ELSE -d)

\* C6: a move that reaches step 4 and to which no brilliant, great or
\* critical override applies gets the bucket of its win-probability loss,
\* also when it is the oracle's first candidate
C6_BaselineIsLossBucket ==
    (PastStep3 /\ ~ArgBrilliant /\ ~ArgGreat /\ ~ArgCritical)
        => ret = Some(Bucket(ArgWinLoss))

C8_GreatWhenAlternativesBad ==
    (/\ PastStep3
     /\ ~ArgBrilliant
     /\ Len(args.top_moves) > 1
     /\ ArgAdvantage >= 0
     /\ ArgAdvantage < 100
     /\ Subjective(ArgTurn, ArgSecondCp) < -100)
        => ret = Some("great")

\* the oracle reported a centipawn score for the best candidate
ArgBestIsCp == Len(args.top_moves) > 0 /\ ArgBestEval.Centipawn # None

\* C9: when the best candidate was played, steps 5-6 do not apply and the
\* best candidate's evaluation is a centipawn score >= 700 or negative, the
\* critical rule does not apply: the result is the baseline label, not great
C9_CriticalOnlyThroughFilter ==
    (/\ PastStep3
     /\ ArgTopMovePlayed
     /\ ~ArgBrilliant
     /\ ~ArgGreat
     /\ ArgBestIsCp
     /\ (ArgBestEval.Centipawn[1] >= 700 \/ ArgBestEval.Centipawn[1] < 0))
        => ret = Some("best")

\* ------------------------------------------------------------------------
\* Properties of is_move_critical_candidate (checked under SpecCritical)
\* ------------------------------------------------------------------------
CpAtLeastThreshold(e) == e.type = "cp" /\ e.value >= 700

\* C10: the filter rejects when either evaluation is a centipawn score
\* >= 700, when the current evaluation is a negative centipawn score or when
\* the board is in check, and accepts in all other cases
C10_FilterRejectsExactly ==
    (args.fn = "is_move_critical_candidate" /\ ret # None) =>
        ret = Some(~(\/ CpAtLeastThreshold(args.previous_eval)
                     \/ CpAtLeastThreshold(args.current_eval)
                     \/ (args.current_eval.type = "cp"
                            /\ args.current_eval.value < 0)
                     \/ args.board_before.is_check))

\* ------------------------------------------------------------------------
\* Properties of the review pass (checked under SpecReview)
\* ------------------------------------------------------------------------
\* C4: a review pass over a game of n moves ends with exactly n records,
\* the k-th record holding the k-th move of the game, whatever the oracle
\* answered (an empty top-move list included)
C4_OneRecordPerMove ==
    review.pc = "done" =>
        /\ Len(review.results) = Len(game)
        /\ \A k \in 1 .. Len(game) : review.results[k].move = game[k].move.uci

\* ------------------------------------------------------------------------
\* Properties of oracle access (checked under SpecOracle)
\* ------------------------------------------------------------------------
\* C5: no two oracle queries are in flight on the same oracle instance
C5_OneQueryInFlightPerInstance ==
    \A a \in in_flight, b \in in_flight :
        a.instance = b.instance => a.thread = b.thread

\* ------------------------------------------------------------------------
\* Further properties of classify_move (checked under SpecClassify)
\* ------------------------------------------------------------------------
\* C11: past steps 1-3, a move that is not the oracle's first candidate and
\* whose oriented win-probability loss against the best candidate exceeds 30
\* is labelled inaccuracy, mistake or blunder (letter case ignored), for
\* every evaluation of the second-best candidate
C11_LossOver30IsPenalised ==
    (/\ PastStep3
     /\ Len(args.top_moves) > 0
     /\ ~ArgTopMovePlayed
     /\ ArgWinLoss > 30 * Scale)
        => Lower(ret[1]) \in {"inaccuracy", "mistake", "blunder"}

\* ------------------------------------------------------------------------
\* Calls of _is_sacrifice_move
\* ------------------------------------------------------------------------
PieceTypes == {PAWN, KNIGHT, BISHOP, ROOK, QUEEN, KING}

\* facts of a move for _is_sacrifice_move: the piece on the from-square, the
\* piece on the to-square (never a king) and the types of the opposing
\* pieces that attack the to-square once the move is made
SacrificeCandidates ==
    [uci : {PlayedUci}, moved_piece : PieceTypes,
     captured_piece : {None} \cup {Some(p) : p \in PieceTypes \ {KING}},
     attackers : SUBSET PieceTypes,
     gives_check : {FALSE}, is_checkmate : {FALSE}]

InitSacrifice ==
    /\ args \in [fn : {"_is_sacrifice_move"},
                 board : [turn : BOOLEAN, legal_moves : {MaxLegal},
                          is_check : {FALSE}],
                 move : SacrificeCandidates]
    /\ ret = None
    /\ frame = None
    /\ IdleReview
    /\ IdleOracle
    /\ IdleApp

IsSacrificeMove ==
    /\ args.fn = "_is_sacrifice_move"
    /\ ret = None
    /\ ret' = Some(_is_sacrifice_move(args.board, args.move))
    /\ UNCHANGED <<args, frame, reviewVars, oracleVars, appVars>>

NextSacrifice == IsSacrificeMove

SpecSacrifice == InitSacrifice /\ [][NextSacrifice]_vars

\* ------------------------------------------------------------------------
\* Properties of _is_sacrifice_move (checked under SpecSacrifice)
\* ------------------------------------------------------------------------
SacrificeDecided == args.fn = "_is_sacrifice_move" /\ ret # None

CapturedValueOf(move) ==
    IF move.captured_piece = None THEN 0
    ELSE PIECE_VALUES[move.captured_piece[1]]

\* a is a cheapest attacker of the destination square
Cheapest(a, attackers) ==
    a \in attackers /\ \A b \in attackers : PIECE_VALUES[a] <= PIECE_VALUES[b]

\* C12: _is_sacrifice_move is true exactly when the moved piece is not a
\* king, the destination is attacked after the move, the cheapest attacker
\* is valued strictly below the moved piece and moved value - captured value
\* - cheapest attacker value >= 100; so a queen moved without capture onto a
\* square attacked only by a pawn is a sacrifice and a knight taking a knight
\* with a knight as only recapturer is not
C12_SacrificeExactly ==
    SacrificeDecided =>
        /\ ret[1] <=>
               /\ args.move.moved_piece # KING
               /\ \E a \in args.move.attackers :
                      /\ Cheapest(a, args.move.attackers)
                      /\ PIECE_VALUES[a] < PIECE_VALUES[args.move.moved_piece]
                      /\ PIECE_VALUES[args.move.moved_piece]
                             - CapturedValueOf(args.move) - PIECE_VALUES[a] >= 100
        /\ (/\ args.move.moved_piece = QUEEN
            /\ args.move.captured_piece = None
            /\ args.move.attackers = {PAWN}) => ret[1]
        /\ (/\ args.move.moved_piece = KNIGHT
            /\ args.move.captured_piece = Some(KNIGHT)
            /\ args.move.attackers = {KNIGHT}) => ~ret[1]

\* a rook takes a pawn on a square defended by a bishop and a queen
C12_Witness ==
    /\ SacrificeDecided
    /\ args.move.moved_piece = ROOK
    /\ args.move.captured_piece = Some(PAWN)
    /\ args.move.attackers = {BISHOP, QUEEN}
    /\ ret = Some(FALSE)

\* ------------------------------------------------------------------------
\* Calls of winning_chances_percent on two arguments in increasing order
\* ------------------------------------------------------------------------
\* how far beyond the saturation thresholds the arguments go
MaxBeyond == 1

\* the tabulated arguments, the first saturated ones and the arguments
\* around +-WINNING_CHANCES_MATE_THRESHOLD
WinArguments ==
    {cp \in -TableMax .. TableMax : cp % TableStep = 0}
    \cup {cp \in -SaturationCp .. SaturationCp :
              cp % FarStep = 0 /\ (cp >= FarMin \/ cp <= -FarMin)}
    \cup {WINNING_CHANCES_MATE_THRESHOLD + k : k \in -1 .. MaxBeyond}
    \cup {-WINNING_CHANCES_MATE_THRESHOLD - k : k \in -1 .. MaxBeyond}

InitWinningChances ==
    /\ args \in {a \in [fn : {"winning_chances_percent"},
                        cp_lo : WinArguments, cp_hi : WinArguments] :
                    a.cp_lo <= a.cp_hi}
    /\ ret = None
    /\ frame = None
    /\ IdleReview
    /\ IdleOracle
    /\ IdleApp

WinningChancesPercent ==
    /\ args.fn = "winning_chances_percent"
    /\ ret = None
    /\ ret' = Some(<<winning_chances_percent(args.cp_lo),
                     winning_chances_percent(args.cp_hi)>>)
    /\ UNCHANGED <<args, frame, reviewVars, oracleVars, appVars>>

NextWinningChances == WinningChancesPercent

SpecWinningChances == InitWinningChances /\ [][NextWinningChances]_vars

\* ------------------------------------------------------------------------
\* Properties of winning_chances_percent (checked under SpecWinningChances)
\* ------------------------------------------------------------------------
WinChancesDecided == args.fn = "winning_chances_percent" /\ ret # None

\* C15: winning_chances_percent(0) is 50, it is 100 from 32000 on and 0 up
\* to -32000, and it never decreases when its argument increases, the two
\* saturation thresholds included
C15_WinChancesMonotone ==
    WinChancesDecided =>
        /\ args.cp_lo = 0 => ret[1][1] = 50 * Scale
        /\ args.cp_lo >= 32000 => ret[1][1] = 100 * Scale
        /\ args.cp_lo <= -32000 => ret[1][1] = 0
        /\ ret[1][1] <= ret[1][2]

\* the two arguments lie on the two sides of the upper threshold
C15_Witness ==
    /\ WinChancesDecided
    /\ args.cp_lo = 31999
    /\ args.cp_hi = 32000
    /\ ret = Some(<<100 * Scale, 100 * Scale>>)

\* ------------------------------------------------------------------------
\* Further properties of the review pass (checked under SpecReview)
\* ------------------------------------------------------------------------
\* the step puts an error message on the review queue
PutsError ==
    /\ Len(review_queue') = Len(review_queue) + 1
    /\ review_queue'[Len(review_queue')].type = "error"

\* the step takes the error message from the review queue
TakesError ==
    /\ review_queue # << >>
    /\ Head(review_queue).type = "error"
    /\ review_queue' = Tail(review_queue)

\* C14: when the oracle cannot be obtained the review thread puts one error
\* message and returns: it has put nothing before, puts nothing afterwards
\* and takes no further step (no oracle query, no second get_instance); the
\* poller takes the message once and stops polling for good
C14_UnavailableOracleReportedOnce ==
    /\ [](review.pc = "failed" =>
              /\ Len(review_queue) <= 1
              /\ \A k \in 1 .. Len(review_queue) : review_queue[k].type = "error"
              /\ review_queue = << >> => ~review_ui.polling)
    /\ [][/\ PutsError =>
                 /\ review.pc = "start"
                 /\ review_queue = << >>
                 /\ review'.pc = "failed"
          /\ review.pc = "failed" =>
                 /\ review' = review
                 /\ Len(review_queue') <= Len(review_queue)
          /\ TakesError => ~review_ui'.polling
          /\ (review.pc = "failed" /\ ~review_ui.polling) =>
                 ~review_ui'.polling]_vars

\* the error has been reported, consumed, and the poller has stopped
C14_Witness ==
    /\ review.pc = "failed"
    /\ review_queue = << >>
    /\ ~review_ui.polling
    /\ "window" \in DOMAIN review_ui
    /\ review_ui.window = "destroyed"

\* plies of White (odd) and of Black (even) among the first n
PliesOf(turn, n) == {k \in 1 .. n : TurnAtPly(k) = turn}

\* seq lists the elements of the set of plies S in increasing order
ListsInOrder(seq, S) ==
    /\ Len(seq) = Cardinality(S)
    /\ {seq[k] : k \in 1 .. Len(seq)} = S
    /\ \A j, k \in 1 .. Len(seq) : j < k => seq[j] < seq[k]

\* C13: when a pass over n moves reaches the accuracy aggregation, the
\* win-probability sequence has n + 1 entries, entry k being the position
\* after ply k, and the i-th accuracy of each player belongs to that
\* player's i-th move, whatever the oracle answered
C13_WinChancesAligned ==
    review.pc = "done" =>
        /\ Len(review.win_chances) = Len(game) + 1
        /\ \A k \in 1 .. Len(review.win_chances) : review.win_plies[k] = k - 1
        /\ Len(review.white_accuracies) = Len(review.white_plies)
        /\ Len(review.black_accuracies) = Len(review.black_plies)
        /\ ListsInOrder(review.white_plies, PliesOf(WHITE, Len(game)))
        /\ ListsInOrder(review.black_plies, PliesOf(BLACK, Len(game)))

\* ------------------------------------------------------------------------
\* Python floats (IEEE 754 binary64) as used by the accuracy aggregation.
\* A natural number is a sequence of limbs in base LimbBase, least
\* significant first, without leading zero limbs (<< >> is 0).  A float
\* x >= 0 is [m, e] with x = m * 2^e and 2^52 <= m < 2^53, or m = << >> and
\* e = 0 for 0.0; every operation rounds to nearest, ties to even.  The
\* values of the aggregation are never negative, infinite or subnormal.
\* ------------------------------------------------------------------------
LimbBits == 14

LimbBase == 16384

MantissaBits == 53

RECURSIVE Pow2(_)
Pow2(k) == IF k = 0 THEN 1 ELSE 2 * Pow2(k - 1)

RECURSIVE SmallBitLen(_)
SmallBitLen(n) == IF n = 0 THEN 0 ELSE 1 + SmallBitLen(n \div 2)

RECURSIVE BNorm(_)
BNorm(a) ==
    IF a = << >> THEN a
    ELSE IF a[Len(a)] = 0 THEN BNorm(SubSeq(a, 1, Len(a) - 1))
    ELSE a

RECURSIVE BFromInt(_)
BFromInt(n) ==
    IF n = 0 THEN << >> ELSE <<n % LimbBase>> \o BFromInt(n \div LimbBase)

Limb(a, i) == IF i <= Len(a) THEN a[i] ELSE 0

BitLen(a) ==
    IF a = << >> THEN 0
    ELSE (Len(a) - 1) * LimbBits + SmallBitLen(a[Len(a)])

RECURSIVE BAddFrom(_, _, _, _)
BAddFrom(a, b, i, carry) ==
    IF i > Len(a) /\ i > Len(b)
    THEN IF carry = 0 THEN << >> ELSE <<carry>>
    ELSE LET s == Limb(a, i) + Limb(b, i) + carry
         IN  <<s % LimbBase>> \o BAddFrom(a, b, i + 1, s \div LimbBase)

BAdd(a, b) == BAddFrom(a, b, 1, 0)

\* a - b for a >= b
RECURSIVE BSubFrom(_, _, _, _)
BSubFrom(a, b, i, borrow) ==
    IF i > Len(a) THEN << >>
    ELSE LET d == a[i] - Limb(b, i) - borrow
         IN  IF d < 0
             THEN <<d + LimbBase>> \o BSubFrom(a, b, i + 1, 1)
             ELSE <<d>> \o BSubFrom(a, b, i + 1, 0)

BSub(a, b) == BNorm(BSubFrom(a, b, 1, 0))

\* -1, 0 or 1 as a < b, a = b or a > b
RECURSIVE BCmpFrom(_, _, _)
BCmpFrom(a, b, i) ==
    IF i = 0 THEN 0
    ELSE IF a[i] < b[i] THEN -1
    ELSE IF a[i] > b[i] THEN 1
    ELSE BCmpFrom(a, b, i - 1)

BCmp(a, b) ==
    IF Len(a) < Len(b) THEN -1
    ELSE IF Len(a) > Len(b) THEN 1
    ELSE BCmpFrom(a, b, Len(a))

\* a * k for 0 <= k <= LimbBase
RECURSIVE BMulSmallFrom(_, _, _, _)
BMulSmallFrom(a, k, i, carry) ==
    IF i > Len(a) THEN BFromInt(carry)
    ELSE LET p == a[i] * k + carry
         IN  <<p % LimbBase>> \o BMulSmallFrom(a, k, i + 1, p \div LimbBase)

BMulSmall(a, k) == BNorm(BMulSmallFrom(a, k, 1, 0))

ZeroLimbs(n) == [i \in 1 .. n |-> 0]

\* a * 2^k
BShl(a, k) ==
    IF a = << >> THEN a
    ELSE ZeroLimbs(k \div LimbBits) \o BMulSmall(a, Pow2(k % LimbBits))

\* floor(a / d) for 1 <= d <= LimbBase, from the most significant limb down
RECURSIVE BDivSmallFrom(_, _, _, _)
BDivSmallFrom(a, d, i, rem) ==
    IF i = 0 THEN << >>
    ELSE LET n == rem * LimbBase + a[i]
         IN  BDivSmallFrom(a, d, i - 1, n % d) \o <<n \div d>>

\* floor(a / 2^k)
BShr(a, k) ==
    IF k \div LimbBits >= Len(a) THEN << >>
    ELSE LET dropped == SubSeq(a, k \div LimbBits + 1, Len(a))
         IN  BNorm(BDivSmallFrom(dropped, Pow2(k % LimbBits), Len(dropped), 0))

RECURSIVE BMulFrom(_, _, _)
BMulFrom(a, b, j) ==
    IF j > Len(b) THEN << >>
    ELSE BAdd(ZeroLimbs(j - 1) \o BMulSmall(a, b[j]), BMulFrom(a, b, j + 1))

BMul(a, b) == IF a = << >> \/ b = << >> THEN << >> ELSE BNorm(BMulFrom(a, b, 1))

\* the largest digit d + (bits i and below) whose product with b is at most r
RECURSIVE QuotientDigit(_, _, _, _)
QuotientDigit(r, b, i, d) ==
    IF i < 0 THEN d
    ELSE LET t == d + Pow2(i)
         IN  IF BCmp(BMulSmall(b, t), r) <= 0
             THEN QuotientDigit(r, b, i - 1, t)
             ELSE QuotientDigit(r, b, i - 1, d)

\* long division by b > 0: n is the remainder so far followed by limb i of
\* the dividend a, q the quotient limbs found above limb i, d the digit at i
RECURSIVE BDivModFrom(_, _, _, _, _)
RECURSIVE BDivModDigit(_, _, _, _, _, _)
BDivModFrom(a, b, i, n, q) ==
    BDivModDigit(a, b, i, n, q, QuotientDigit(n, b, LimbBits - 1, 0))

BDivModDigit(a, b, i, n, q, d) ==
    IF i = 1 THEN [q |-> BNorm(<<d>> \o q), r |-> BSub(n, BMulSmall(b, d))]
    ELSE BDivModFrom(a, b, i - 1,
                     BNorm(<<a[i - 1]>> \o BSub(n, BMulSmall(b, d))),
                     <<d>> \o q)

\* quotient q and remainder r of a by b > 0
BDivMod(a, b) ==
    IF a = << >> THEN [q |-> << >>, r |-> << >>]
    ELSE BDivModFrom(a, b, Len(a), <<a[Len(a)]>>, << >>)

\* floor of the square root, one bit at a time from bit i down
RECURSIVE BSqrtFrom(_, _, _)
BSqrtFrom(a, i, root) ==
    IF i < 0 THEN root
    ELSE LET t == BAdd(root, BShl(<<1>>, i))
         IN  IF BCmp(BMul(t, t), a) <= 0
             THEN BSqrtFrom(a, i - 1, t)
             ELSE BSqrtFrom(a, i - 1, root)

BSqrt(a) == BSqrtFrom(a, BitLen(a) \div 2, << >>)

FZero == [m |-> << >>, e |-> 0]

IsZero(x) == x.m = << >>

\* kept plus one unit in the last place when the dropped part rest is more
\* than half a unit, or exactly half and kept is odd (ties to even)
RoundedUp(kept, rest, half, sticky) ==
    IF \/ BCmp(rest, half) > 0
       \/ BCmp(rest, half) = 0 /\ (sticky \/ kept[1] % 2 = 1)
    THEN BAdd(kept, <<1>>)
    ELSE kept

Renormalised(m, e) ==
    IF BitLen(m) > MantissaBits THEN [m |-> BShr(m, 1), e |-> e + 1]
    ELSE [m |-> m, e |-> e]

RoundDropped(n, e, sticky, drop, kept) ==
    Renormalised(RoundedUp(kept, BSub(n, BShl(kept, drop)),
                           BShl(<<1>>, drop - 1), sticky),
                 e + drop)

\* the float nearest to n * 2^e, plus something in (0, 2^e) when sticky
FRound(n, e, sticky) ==
    IF n = << >> THEN FZero
    ELSE IF BitLen(n) <= MantissaBits
    THEN [m |-> BShl(n, MantissaBits - BitLen(n)),
          e |-> e - (MantissaBits - BitLen(n))]
    ELSE RoundDropped(n, e, sticky, BitLen(n) - MantissaBits,
                      BShr(n, BitLen(n) - MantissaBits))

FFromInt(n) == FRound(BFromInt(n), 0, FALSE)

Min(a, b) == IF a <= b THEN a ELSE b

FAdd(x, y) ==
    IF IsZero(x) THEN y
    ELSE IF IsZero(y) THEN x
    ELSE LET e == Min(x.e, y.e)
         IN  FRound(BAdd(BShl(x.m, x.e - e), BShl(y.m, y.e - e)), e, FALSE)

\* x < y
FLess(x, y) ==
    IF IsZero(y) THEN FALSE
    ELSE IF IsZero(x) THEN TRUE
    ELSE x.e < y.e \/ (x.e = y.e /\ BCmp(x.m, y.m) < 0)

\* |x - y|
FAbsDiff(x, y) ==
    IF IsZero(x) THEN y
    ELSE IF IsZero(y) THEN x
    ELSE LET e == Min(x.e, y.e)
             a == BShl(x.m, x.e - e)
             b == BShl(y.m, y.e - e)
         IN  IF BCmp(a, b) >= 0 THEN FRound(BSub(a, b), e, FALSE)
             ELSE FRound(BSub(b, a), e, FALSE)

FMul(x, y) == FRound(BMul(x.m, y.m), x.e + y.e, FALSE)

\* extra quotient bits that carry the rounding information
GuardBits == 3

\* x / y; Python raises ZeroDivisionError for y = 0
ZeroDivisionError == [raised |-> "ZeroDivisionError"]

FromQuotient(d, e) == FRound(d.q, e, d.r # << >>)

QuotientShift == MantissaBits + GuardBits

FDiv(x, y) ==
    IF IsZero(y) THEN ZeroDivisionError
    ELSE IF IsZero(x) THEN FZero
    ELSE FromQuotient(BDivMod(BShl(x.m, QuotientShift), y.m),
                      x.e - y.e - QuotientShift)

FromRoot(n, root, e) == FRound(root, e, BMul(root, root) # n)

FSqrtShifted(x, n, shift) == FromRoot(n, BSqrt(n), (x.e - shift) \div 2)

\* math.sqrt: the root of m * 2^shift with an even exponent left over
FSqrt(x) ==
    IF IsZero(x) THEN FZero
    ELSE LET shift == QuotientShift + ((x.e + QuotientShift) % 2)
         IN  FSqrtShifted(x, BShl(x.m, shift), shift)

\* ------------------------------------------------------------------------
\* accuracy_calculator.py: aggregation of the per-move accuracies
\* ------------------------------------------------------------------------
VOLATILITY_WINDOW_SIZE == 2

VOLATILITY_MIN_WEIGHT == FRound(<<1>>, -1, FALSE)

VOLATILITY_MAX_WEIGHT == FFromInt(12)

\* sum(): the items added from left to right, starting from the int 0,
\* each addition rounded (the compensated sum of later interpreters differs
\* in the last place on some inputs)
RECURSIVE FSumFrom(_, _, _)
FSumFrom(xs, i, acc) ==
    IF i > Len(xs) THEN acc ELSE FSumFrom(xs, i + 1, FAdd(acc, xs[i]))

FSum(xs) == FSumFrom(xs, 1, FZero)

Reciprocals(xs) == [i \in 1 .. Len(xs) |-> FDiv(FFromInt(1), xs[i])]

HarmonicQuotient(count, reciprocal_sum) ==
    IF ~IsZero(reciprocal_sum) THEN FDiv(FFromInt(count), reciprocal_sum)
    ELSE FZero

HarmonicOfNonZero(non_zero_values) ==
    IF non_zero_values = << >> THEN FZero
    ELSE HarmonicQuotient(Len(non_zero_values),
                          FSum(Reciprocals(non_zero_values)))

harmonic_mean(values) ==
    IF values = << >> THEN FZero
    ELSE HarmonicOfNonZero(SelectSeq(values, LAMBDA v : FLess(FZero, v)))

\* (x - mean) ** 2 for each x, the correctly rounded square; the square of
\* the difference does not depend on its sign
SquaredDeviation(d) == FMul(d, d)

SquaredDeviations(sequence, mean) ==
    [i \in 1 .. Len(sequence) |->
        SquaredDeviation(FAbsDiff(sequence[i], mean))]

StdDevAround(sequence, mean) ==
    FSqrt(FDiv(FSum(SquaredDeviations(sequence, mean)),
               FFromInt(Len(sequence))))

std_dev(sequence) ==
    IF sequence = << >> THEN VOLATILITY_MIN_WEIGHT
    ELSE StdDevAround(sequence,
                      FDiv(FSum(sequence), FFromInt(Len(sequence))))

\* win_chances[start_idx : end_idx + 1] with 0-based indices, start_idx >= 0
\* and end_idx >= -1; a slice never raises IndexError
Slice(win_chances, start_idx, end_idx) ==
    SubSeq(win_chances, start_idx + 1, Min(end_idx + 1, Len(win_chances)))

\* max(min(deviation, VOLATILITY_MAX_WEIGHT), VOLATILITY_MIN_WEIGHT)
ClampWeight(deviation) ==
    IF FLess(VOLATILITY_MAX_WEIGHT, deviation) THEN VOLATILITY_MAX_WEIGHT
    ELSE IF FLess(deviation, VOLATILITY_MIN_WEIGHT) THEN VOLATILITY_MIN_WEIGHT
    ELSE deviation

\* the weight of the player's move number i (0-based)
WeightAt(i, win_chances, is_white) ==
    LET base_index == IF is_white THEN i * 2 + 1 ELSE i * 2 + 2
        start_idx == Max(base_index - VOLATILITY_WINDOW_SIZE, 0)
        end_idx == Min(base_index + VOLATILITY_WINDOW_SIZE,
                       Len(win_chances) - 1)
    IN  ClampWeight(std_dev(Slice(win_chances, start_idx, end_idx)))

Weights(count, win_chances, is_white) ==
    [k \in 1 .. count |-> WeightAt(k - 1, win_chances, is_white)]

WeightedQuotient(weighted_sum, total_weight) ==
    IF ~IsZero(total_weight) THEN FDiv(weighted_sum, total_weight) ELSE FZero

WeightedMeanOf(accuracies, weights) ==
    WeightedQuotient(
        FSum([k \in 1 .. Len(accuracies) |-> FMul(accuracies[k], weights[k])]),
        FSum(weights))

volatility_weighted_mean(accuracies, win_chances, is_white) ==
    IF accuracies = << >> THEN FZero
    ELSE WeightedMeanOf(accuracies,
                        Weights(Len(accuracies), win_chances, is_white))

FinalTuple(harmonic_mean_acc, weighted_mean_acc) ==
    <<harmonic_mean_acc, weighted_mean_acc,
      FDiv(FAdd(harmonic_mean_acc, weighted_mean_acc), FFromInt(2))>>

calculate_final_accuracy(accuracies, win_chances, is_white) ==
    IF accuracies = << >> THEN <<FZero, FZero, FZero>>
    ELSE FinalTuple(harmonic_mean(accuracies),
                    volatility_weighted_mean(accuracies, win_chances,
                                             is_white))

\* ------------------------------------------------------------------------
\* Calls of calculate_final_accuracy
\* ------------------------------------------------------------------------
MaxAccuracies == 2

MaxWinChances == 3

\* per-move accuracies and win probabilities, in percent
AccuracyInputs == {0, 100}

WinChanceInputs == {40, 46, 55}

FloatLists(values, maxLen) ==
    UNION {[1 .. n -> {FFromInt(v) : v \in values}] : n \in 0 .. maxLen}

InitFinalAccuracy ==
    /\ args \in [fn : {"calculate_final_accuracy"},
                 accuracies : FloatLists(AccuracyInputs, MaxAccuracies),
                 win_chances : FloatLists(WinChanceInputs, MaxWinChances),
                 is_white : BOOLEAN]
    /\ ret = None
    /\ frame = None
    /\ IdleReview
    /\ IdleOracle
    /\ IdleApp

CalculateFinalAccuracy ==
    /\ args.fn = "calculate_final_accuracy"
    /\ ret = None
    /\ ret' = Some(calculate_final_accuracy(args.accuracies, args.win_chances,
                                            args.is_white))
    /\ UNCHANGED <<args, frame, reviewVars, oracleVars, appVars>>

NextFinalAccuracy == CalculateFinalAccuracy

SpecFinalAccuracy == InitFinalAccuracy /\ [][NextFinalAccuracy]_vars

FinalAccuracyDecided ==
    args.fn = "calculate_final_accuracy" /\ ret # None

Raised(v) == "raised" \in DOMAIN v

Hundred == FFromInt(100)

AllZero(accuracies) == \A i \in 1 .. Len(accuracies) : IsZero(accuracies[i])

\* C16: harmonic mean, volatility-weighted mean and final accuracy are
\* computed without a division by zero or an index error, are 0 when the
\* accuracy list is empty or all-zero, and lie in [0, 100] for accuracies
\* in [0, 100], whatever the win-probability sequence (empty and shorter
\* than the window of the last move included).  The model's floats are
\* never negative, so the lower end of the range is the representation's.
C16_AggregatesInRange ==
    FinalAccuracyDecided =>
        \A k \in 1 .. 3 :
            /\ ~Raised(ret[1][k])
            /\ ~FLess(Hundred, ret[1][k])
            /\ AllZero(args.accuracies) => IsZero(ret[1][k])

\* C16, without the upper end of the range: no exception and 0 for an empty
\* or all-zero accuracy list
C16_GuardsHold ==
    FinalAccuracyDecided =>
        \A k \in 1 .. 3 :
            /\ ~Raised(ret[1][k])
            /\ AllZero(args.accuracies) => IsZero(ret[1][k])

\* ------------------------------------------------------------------------
\* chess.Board as read by attackers_defenders.py and piece_safety.py: a
\* position maps each square of Region to None or Some(piece), a piece being
\* [color, piece_type]; every other square is empty.  Squares are numbered
\* as in the chess package, a1 = 0, b1 = 1, ... h8 = 63.
\* ------------------------------------------------------------------------
Piece(piece_type, color) == [color |-> color, piece_type |-> piece_type]

FileOf(sq) == sq % 8

RankOf(sq) == sq \div 8

Sgn(n) == IF n > 0 THEN 1 ELSE IF n < 0 THEN -1 ELSE 0

FileDistance(a, b) == Abs(FileOf(a) - FileOf(b))

RankDistance(a, b) == Abs(RankOf(a) - RankOf(b))

Orthogonal(a, b) == a # b /\ (FileOf(a) = FileOf(b) \/ RankOf(a) = RankOf(b))

Diagonal(a, b) == a # b /\ FileDistance(a, b) = RankDistance(a, b)

\* the squares strictly between two squares of one line
Between(a, b) ==
    LET step == 8 * Sgn(RankOf(b) - RankOf(a)) + Sgn(FileOf(b) - FileOf(a))
        dist == Max(FileDistance(a, b), RankDistance(a, b))
    IN  {a + k * step : k \in 1 .. dist - 1}

piece_at(board, sq) == IF sq \in DOMAIN board THEN board[sq] ELSE None

remove_piece_at(board, sq) == [board EXCEPT ![sq] = None]

set_piece_at(board, sq, piece) == [board EXCEPT ![sq] = Some(piece)]

Clear(board, a, b) == \A sq \in Between(a, b) : piece_at(board, sq) = None

\* the piece on square from attacks square to (pins are not considered)
Attacks(board, piece, from, to) ==
    CASE piece.piece_type = PAWN ->
            /\ FileDistance(from, to) = 1
            /\ RankOf(to) - RankOf(from) = Sign(piece.color)
      [] piece.piece_type = KNIGHT ->
            {FileDistance(from, to), RankDistance(from, to)} = {1, 2}
      [] piece.piece_type = KING ->
            from # to /\ Max(FileDistance(from, to), RankDistance(from, to)) = 1
      [] piece.piece_type = BISHOP ->
            Diagonal(from, to) /\ Clear(board, from, to)
      [] piece.piece_type = ROOK ->
            Orthogonal(from, to) /\ Clear(board, from, to)
      [] piece.piece_type = QUEEN ->
            (Diagonal(from, to) \/ Orthogonal(from, to)) /\ Clear(board, from, to)

\* board.attackers(color, square), a set of squares
attackers(board, color, square) ==
    {sq \in DOMAIN board :
        /\ board[sq] # None
        /\ board[sq][1].color = color
        /\ Attacks(board, board[sq][1], sq, square)}

\* list(square_set): the squares in ascending order
RECURSIVE ListOf(_)
ListOf(squares) ==
    IF squares = {} THEN << >>
    ELSE <<SetMin(squares)>> \o ListOf(squares \ {SetMin(squares)})

Elements(list) == {list[i] : i \in 1 .. Len(list)}

\* ------------------------------------------------------------------------
\* attackers_defenders.py: get_attacking_moves
\* ------------------------------------------------------------------------
\* the attackers revealed by taking current_attacker off a copy of the board
RevealedWithout(board, target_square, attacking_color, current_attacker, all_attackers) ==
    SelectSeq(ListOf(attackers(remove_piece_at(board, current_attacker),
                               attacking_color, target_square)),
              LAMBDA sq : sq \notin Elements(all_attackers))

\* mutant: a king too is taken off the board to look behind it
revealed_attackers_behind_kings(board, target_square, attacking_color, current_attacker, all_attackers) ==
    RevealedWithout(board, target_square, attacking_color, current_attacker,
                    all_attackers)

\* the attackers revealed by one iteration of the while loop
revealed_attackers(board, target_square, attacking_color, current_attacker, all_attackers) ==
    IF \/ piece_at(board, current_attacker) = None
       \/ piece_at(board, current_attacker)[1].piece_type = KING
    THEN << >>
    ELSE RevealedWithout(board, target_square, attacking_color,
                         current_attacker, all_attackers)

\* one iteration: frontier.pop() takes the last element
FrontierIteration(board, target_square, attacking_color, locals) ==
    LET current_attacker == locals.frontier[Len(locals.frontier)]
        revealed == revealed_attackers(board, target_square, attacking_color,
                                       current_attacker, locals.all_attackers)
    IN  [all_attackers |-> locals.all_attackers \o revealed,
         frontier |-> SubSeq(locals.frontier, 1, Len(locals.frontier) - 1)
                          \o revealed]

RECURSIVE WhileFrontier(_, _, _, _)
WhileFrontier(board, target_square, attacking_color, locals) ==
    IF locals.frontier = << >> THEN locals.all_attackers
    ELSE WhileFrontier(board, target_square, attacking_color,
                       FrontierIteration(board, target_square,
                                         attacking_color, locals))

direct_attackers(board, target_square, attacking_color) ==
    ListOf(attackers(board, attacking_color, target_square))

get_attacking_moves(board, target_square, attacking_color, transitive) ==
    IF ~transitive THEN direct_attackers(board, target_square, attacking_color)
    ELSE WhileFrontier(board, target_square, attacking_color,
             [all_attackers |->
                  direct_attackers(board, target_square, attacking_color),
              frontier |->
                  direct_attackers(board, target_square, attacking_color)])

\* ------------------------------------------------------------------------
\* Calls of get_attacking_moves, one loop iteration at a time
\* ------------------------------------------------------------------------
\* d4, the attacked square
TargetSquare == 27

\* d5, d6, d7 on the file of the target and e5, f6 on a diagonal of it
LineSquares == {35, 43, 51, 36, 45}

Region == {TargetSquare} \cup LineSquares

\* what stands around the target: nothing, a black piece or a white rook
LineContents ==
    {None, Some(Piece(ROOK, WHITE))}
    \cup {Some(Piece(t, BLACK)) : t \in {PAWN, BISHOP, ROOK, QUEEN, KING}}

KingsOf(board, color) ==
    {sq \in DOMAIN board : board[sq] = Some(Piece(KING, color))}

AttackPositions ==
    {board \in [Region -> LineContents \cup {Some(Piece(KNIGHT, WHITE))}] :
        /\ board[TargetSquare] \in {None, Some(Piece(KNIGHT, WHITE))}
        /\ \A sq \in LineSquares : board[sq] \in LineContents
        /\ Cardinality(KingsOf(board, BLACK)) <= 1}

InitAttackers ==
    /\ args \in [fn : {"get_attacking_moves"}, board : AttackPositions,
                 target_square : {TargetSquare}, attacking_color : {BLACK},
                 transitive : BOOLEAN]
    /\ ret = None
    /\ frame = None
    /\ IdleReview
    /\ IdleOracle
    /\ IdleApp

\* lines 26-32: the direct attackers, returned at once unless transitive
GetAttackingMovesDirect ==
    /\ args.fn = "get_attacking_moves"
    /\ ret = None
    /\ frame = None
    /\ LET direct == direct_attackers(args.board, args.target_square,
                                      args.attacking_color)
       IN  IF ~args.transitive
           THEN ret' = Some(direct) /\ frame' = frame
           ELSE /\ frame' = Some([all_attackers |-> direct,
                                  frontier |-> direct])
                /\ ret' = ret
    /\ UNCHANGED <<args, reviewVars, oracleVars, appVars>>

\* lines 38-55: one iteration of the while loop
GetAttackingMovesIteration ==
    /\ args.fn = "get_attacking_moves"
    /\ frame # None
    /\ frame[1].frontier # << >>
    /\ frame' = Some(FrontierIteration(args.board, args.target_square,
                                       args.attacking_color, frame[1]))
    /\ UNCHANGED <<args, ret, reviewVars, oracleVars, appVars>>

\* line 57
GetAttackingMovesReturn ==
    /\ args.fn = "get_attacking_moves"
    /\ frame # None
    /\ frame[1].frontier = << >>
    /\ ret' = Some(frame[1].all_attackers)
    /\ frame' = None
    /\ UNCHANGED <<args, reviewVars, oracleVars, appVars>>

NextAttackers ==
    \/ GetAttackingMovesDirect
    \/ GetAttackingMovesIteration
    \/ GetAttackingMovesReturn

SpecAttackers == InitAttackers /\ [][NextAttackers]_vars

\* the call runs on its own thread of control and is never suspended for ever
FairSpecAttackers == SpecAttackers /\ WF_vars(NextAttackers)

AttackersCalled == args.fn = "get_attacking_moves"

AttackersReturned == AttackersCalled /\ ret # None

\* the list built so far, or returned
AttackerList == IF frame # None THEN frame[1].all_attackers ELSE ret[1]

NoSquareTwice(list) ==
    \A i, j \in 1 .. Len(list) : list[i] = list[j] => i = j

TypeAt(board, sq) == board[sq][1].piece_type

\* sq shows up as an attacker when some listed piece other than a king is
\* taken off the board
RevealedBehindListed(board, sq, list) ==
    \E a \in Elements(list) :
        /\ TypeAt(board, a) # KING
        /\ sq \in attackers(remove_piece_at(board, a), args.attacking_color,
                            args.target_square)

AttackerListSound ==
    (AttackersCalled /\ (frame # None \/ ret # None)) =>
        LET direct == attackers(args.board, args.attacking_color,
                                args.target_square)
        IN  /\ NoSquareTwice(AttackerList)
            /\ direct \subseteq Elements(AttackerList)
            /\ \A sq \in Elements(AttackerList) \ direct :
                   RevealedBehindListed(args.board, sq, AttackerList)

\* C17: get_attacking_moves terminates; its list holds every direct attacker
\* and no square twice; a king among the attackers stays in the list and is
\* never taken off the board, so that what stands behind it is not revealed.
C17_AttackersTerminateAndSound ==
    /\ []AttackerListSound
    /\ <>(AttackersCalled => ret # None)

\* a transitive call has returned a king, a direct attacker and a revealed
\* attacker although a rook stands right behind the king
C17_Witness ==
    /\ AttackersReturned
    /\ args.transitive
    /\ args.board[35] = Some(Piece(KING, BLACK))
    /\ args.board[43] = Some(Piece(ROOK, BLACK))
    /\ 35 \in Elements(ret[1])
    /\ 43 \notin Elements(ret[1])
    /\ Len(ret[1]) = 3

\* the lines of Region that start next to the target, nearest square first
Rays == {<<35, 43, 51>>, <<36, 45>>}

OccupiedOf(board, ray) == SelectSeq(ray, LAMBDA sq : board[sq] # None)

\* the piece on sq is of the attacking colour and moves along the line
\* through sq and the target
SliderToward(board, sq, attacking_color, target_square) ==
    /\ board[sq][1].color = attacking_color
    /\ \/ TypeAt(board, sq) = QUEEN
       \/ TypeAt(board, sq) = ROOK /\ Orthogonal(sq, target_square)
       \/ TypeAt(board, sq) = BISHOP /\ Diagonal(sq, target_square)

\* the first k + 1 pieces of the ray form a battery: a direct attacker, not a
\* king, with k sliders of its colour lined up behind it
BatteryOfDepth(board, occupied, k, attacking_color, target_square) ==
    /\ Len(occupied) >= k + 1
    /\ occupied[1] \in attackers(board, attacking_color, target_square)
    /\ TypeAt(board, occupied[1]) # KING
    /\ \A j \in 2 .. k + 1 :
           SliderToward(board, occupied[j], attacking_color, target_square)

BatteryReported(k) ==
    (AttackersReturned /\ args.transitive) =>
        \A ray \in Rays :
            LET occupied == OccupiedOf(args.board, ray)
            IN  BatteryOfDepth(args.board, occupied, k, args.attacking_color,
                               args.target_square)
                    => \A j \in 1 .. k + 1 : occupied[j] \in Elements(ret[1])

\* C18: in transitive mode every piece of a battery aimed at the target is
\* reported, whatever the depth k >= 1 of the battery.
C18_WholeBatteryReported == \A k \in 1 .. 2 : BatteryReported(k)

\* C18 for the depth of the spec's example only: the slider right behind a
\* direct attacker is reported
C18_DepthOneReported == BatteryReported(1)

\* ------------------------------------------------------------------------
\* attackers_defenders.py: get_defending_moves
\* ------------------------------------------------------------------------
\* lines 99-102: the board after the piece on attacker_square has captured on
\* target_square
AfterCapture(board, target_square, attacker_square) ==
    remove_piece_at(
        set_piece_at(remove_piece_at(board, target_square), target_square,
                     board[attacker_square][1]),
        attacker_square)

\* lines 84-86: the board with the colour of the piece on target_square flipped
WithFlippedColor(board, target_square, piece) ==
    set_piece_at(remove_piece_at(board, target_square), target_square,
                 Piece(piece.piece_type, ~piece.color))

\* lines 107-109 for one attacker; min_recapturers is None for float('inf')
keep_smaller(best, recapturers) ==
    IF best.min_recapturers = None \/ Len(recapturers) < best.min_recapturers[1]
    THEN [smallest_recapture_set |-> Some(recapturers),
          min_recapturers |-> Some(Len(recapturers))]
    ELSE best

\* lines 93-109: the for loop over the direct attackers from the i-th on
RECURSIVE ForEachAttacker(_, _, _, _, _, _)
ForEachAttacker(board, target_square, defending_color, transitive, attacker_list, best) ==
    IF attacker_list = << >> THEN best
    ELSE ForEachAttacker(board, target_square, defending_color, transitive,
             Tail(attacker_list),
             keep_smaller(best,
                 get_attacking_moves(
                     AfterCapture(board, target_square, Head(attacker_list)),
                     target_square, defending_color, transitive)))

SmallestOrEmpty(best) ==
    IF best.smallest_recapture_set # None THEN best.smallest_recapture_set[1]
    ELSE << >>

DefendersOfAttacked(board, target_square, defending_color, transitive, attacker_list) ==
    SmallestOrEmpty(
        ForEachAttacker(board, target_square, defending_color, transitive,
                        attacker_list,
                        [smallest_recapture_set |-> None,
                         min_recapturers |-> None]))

DefendersOfPiece(board, target_square, defending_color, transitive, piece, attacker_list) ==
    IF attacker_list = << >>
    THEN ListOf(attackers(WithFlippedColor(board, target_square, piece),
                          defending_color, target_square))
    ELSE DefendersOfAttacked(board, target_square, defending_color,
                             transitive, attacker_list)

get_defending_moves(board, target_square, defending_color, transitive) ==
    IF piece_at(board, target_square) = None THEN << >>
    ELSE DefendersOfPiece(board, target_square, defending_color, transitive,
             piece_at(board, target_square)[1],
             get_attacking_moves(board, target_square, ~defending_color,
                                 FALSE))

\* ------------------------------------------------------------------------
\* Calls of get_defending_moves
\* ------------------------------------------------------------------------
\* what stands around the target: nothing or a line piece of either colour
DefenceContents ==
    {None} \cup {Some(Piece(t, c)) : t \in {BISHOP, ROOK, QUEEN}, c \in BOOLEAN}

DefencePositions ==
    {board \in [Region -> DefenceContents \cup {Some(Piece(KNIGHT, WHITE))}] :
        /\ board[TargetSquare] \in {None, Some(Piece(KNIGHT, WHITE))}
        /\ \A sq \in LineSquares : board[sq] \in DefenceContents}

InitDefenders ==
    /\ args \in [fn : {"get_defending_moves"}, board : DefencePositions,
                 target_square : {TargetSquare}, defending_color : BOOLEAN,
                 transitive : BOOLEAN]
    /\ ret = None
    /\ frame = None
    /\ IdleReview
    /\ IdleOracle
    /\ IdleApp

GetDefendingMoves ==
    /\ args.fn = "get_defending_moves"
    /\ ret = None
    /\ ret' = Some(get_defending_moves(args.board, args.target_square,
                                       args.defending_color, args.transitive))
    /\ UNCHANGED <<args, frame, reviewVars, oracleVars, appVars>>

NextDefenders == GetDefendingMoves

SpecDefenders == InitDefenders /\ [][NextDefenders]_vars

DefendersDecided == args.fn = "get_defending_moves" /\ ret # None

\* the pieces of the other colour that attack the target directly
DirectAttackersOfTarget ==
    attackers(args.board, ~args.defending_color, args.target_square)

\* who can recapture once the piece on sq has taken on the target, as
\* get_attacking_moves lists them
RecaptureSet(sq) ==
    get_attacking_moves(AfterCapture(args.board, args.target_square, sq),
                        args.target_square, args.defending_color,
                        args.transitive)

\* the attackers whose capture leaves the fewest listed recapturers
FewestRecapturers ==
    {a \in DirectAttackersOfTarget :
        \A b \in DirectAttackersOfTarget :
            Len(RecaptureSet(a)) <= Len(RecaptureSet(b))}

\* the pieces of one colour that attack the target directly or from behind
\* pieces of this set other than a king: the fixed point of the reveals
RECURSIVE BatteryClosure(_, _, _, _)
BatteryClosure(board, target_square, color, found) ==
    LET removed == {sq \in found : TypeAt(board, sq) # KING}
        scratch == [sq \in DOMAIN board |->
                       IF sq \in removed THEN None ELSE board[sq]]
        next == found \cup attackers(scratch, color, target_square)
    IN  IF next = found THEN found
        ELSE BatteryClosure(board, target_square, color, next)

\* the direct and, in transitive mode, the battery recapturers once the piece
\* on sq has taken on the target
TrueRecaptureSet(sq) ==
    LET after == AfterCapture(args.board, args.target_square, sq)
        direct == attackers(after, args.defending_color, args.target_square)
    IN  IF args.transitive
        THEN BatteryClosure(after, args.target_square, args.defending_color,
                            direct)
        ELSE direct

FewestTrueRecapturers ==
    {a \in DirectAttackersOfTarget :
        \A b \in DirectAttackersOfTarget :
            Cardinality(TrueRecaptureSet(a)) <= Cardinality(TrueRecaptureSet(b))}

FlippedDefenders ==
    attackers(WithFlippedColor(args.board, args.target_square,
                               args.board[args.target_square][1]),
              args.defending_color, args.target_square)

\* C19: get_defending_moves returns [] for an empty square; for a piece
\* without direct attacker the defending-colour pieces that attack the
\* square once the piece has the opposite colour; otherwise the transitive
\* recapture set of minimum size over the captures by each direct attacker,
\* and on equal size that of the attacker enumerated first (lowest square).
C19_DefendersAsSpecified ==
    DefendersDecided =>
        IF args.board[args.target_square] = None THEN ret[1] = << >>
        ELSE IF DirectAttackersOfTarget = {}
        THEN ret[1] = ListOf(FlippedDefenders)
        ELSE /\ NoSquareTwice(ret[1])
             /\ Elements(ret[1]) = TrueRecaptureSet(SetMin(FewestTrueRecapturers))

\* C19 with the recapture sets as get_attacking_moves lists them: the
\* smallest list, and on equal length that of the lowest attacker square
C19_SmallestListedSet ==
    DefendersDecided =>
        IF args.board[args.target_square] = None THEN ret[1] = << >>
        ELSE IF DirectAttackersOfTarget = {}
        THEN ret[1] = ListOf(FlippedDefenders)
        ELSE ret[1] = RecaptureSet(SetMin(FewestRecapturers))

\* ------------------------------------------------------------------------
\* piece_safety.py: is_piece_safe
\* ------------------------------------------------------------------------
ValueAt(board, sq) == PIECE_VALUES[board[sq][1].piece_type]

HasLowerValue(board, squares, value) ==
    \E sq \in squares : ValueAt(board, sq) < value

\* lines 37-45: a rook, a knight-valued piece on the to-square of the played
\* move, a single attacker that is knight-valued, and a defender
FavourableExchange(board, piece, played_move, all_attackers, defenders) ==
    /\ played_move # None
    /\ piece_at(board, played_move[1].to_square) # None
    /\ piece.piece_type = ROOK
    /\ ValueAt(board, played_move[1].to_square) = PIECE_VALUES[KNIGHT]
    /\ Cardinality(all_attackers) = 1
    /\ Cardinality(defenders) > 0
    /\ \E a \in all_attackers : ValueAt(board, a) = PIECE_VALUES[KNIGHT]

\* lines 48-51
LowerValuedAttacker(board, piece, direct) ==
    HasLowerValue(board, direct, PIECE_VALUES[piece.piece_type])

\* lines 54-55
AttackersCovered(all_attackers, defenders) ==
    Cardinality(all_attackers) <= Cardinality(defenders)

\* lines 59-70
CheapDefender(board, piece, direct, defenders) ==
    /\ direct # {}
    /\ LET lowest_attacker_value == SetMin({ValueAt(board, sq) : sq \in direct})
       IN  /\ PIECE_VALUES[piece.piece_type] < lowest_attacker_value
           /\ HasLowerValue(board, defenders, lowest_attacker_value)

\* lines 73-75
PawnDefender(board, defenders) ==
    \E sq \in defenders : board[sq][1].piece_type = PAWN

\* lines 37-77: the rules in the order of the code, on the sets of squares of
\* the three lists
safety_rules(board, piece, played_move, direct, all_attackers, defenders) ==
    IF FavourableExchange(board, piece, played_move, all_attackers, defenders)
    THEN TRUE
    ELSE IF LowerValuedAttacker(board, piece, direct) THEN FALSE
    ELSE IF AttackersCovered(all_attackers, defenders) THEN TRUE
    ELSE IF CheapDefender(board, piece, direct, defenders) THEN TRUE
    ELSE PawnDefender(board, defenders)

SafetyOfPiece(board, square, piece, played_move) ==
    safety_rules(board, piece, played_move,
        Elements(get_attacking_moves(board, square, ~piece.color, FALSE)),
        Elements(get_attacking_moves(board, square, ~piece.color, TRUE)),
        Elements(get_defending_moves(board, square, piece.color, TRUE)))

is_piece_safe(board, square, played_move) ==
    IF piece_at(board, square) = None THEN TRUE
    ELSE SafetyOfPiece(board, square, piece_at(board, square)[1], played_move)

\* ------------------------------------------------------------------------
\* Calls of is_piece_safe
\* ------------------------------------------------------------------------
\* c3 and f3: a pawn's and a knight's distance from the target
PawnSquare == 18

KnightSquare == 21

\* e5, next to the target on a diagonal
DiagonalSquare == 36

\* d5, d6, d7
FileSquares == {35, 43, 51}

SafetyRegion ==
    {TargetSquare, PawnSquare, KnightSquare, DiagonalSquare} \cup FileSquares

TargetContents ==
    {None} \cup {Some(Piece(t, WHITE)) : t \in {KNIGHT, ROOK, QUEEN}}

PawnSquareContents ==
    {None} \cup {Some(Piece(t, WHITE)) : t \in {PAWN, BISHOP}}

KnightSquareContents == {None} \cup {Some(Piece(KNIGHT, c)) : c \in BOOLEAN}

DiagonalSquareContents ==
    {None, Some(Piece(PAWN, BLACK)), Some(Piece(BISHOP, BLACK)),
     Some(Piece(BISHOP, WHITE))}

FileContents ==
    {None} \cup {Some(Piece(t, c)) : t \in {ROOK, QUEEN}, c \in BOOLEAN}

SafetyPositions ==
    {[sq \in SafetyRegion |->
         CASE sq = TargetSquare -> target
           [] sq = PawnSquare -> near
           [] sq = KnightSquare -> jump
           [] sq = DiagonalSquare -> diag
           [] OTHER -> file[sq]] :
        target \in TargetContents, near \in PawnSquareContents,
        jump \in KnightSquareContents, diag \in DiagonalSquareContents,
        file \in [FileSquares -> FileContents]}

\* no played move, or one that ended on the knight's square or on the target
PlayedMoveArguments ==
    {None} \cup {Some([to_square |-> sq]) : sq \in {KnightSquare, TargetSquare}}

InitSafety ==
    /\ args \in [fn : {"is_piece_safe"}, board : SafetyPositions,
                 square : {TargetSquare}, played_move : PlayedMoveArguments]
    /\ ret = None
    /\ frame = None
    /\ IdleReview
    /\ IdleOracle
    /\ IdleApp

IsPieceSafe ==
    /\ args.fn = "is_piece_safe"
    /\ ret = None
    /\ ret' = Some(is_piece_safe(args.board, args.square, args.played_move))
    /\ UNCHANGED <<args, frame, reviewVars, oracleVars, appVars>>

NextSafety == IsPieceSafe

SpecSafety == InitSafety /\ [][NextSafety]_vars

SafetyDecided == args.fn = "is_piece_safe" /\ ret # None

PieceOnSquare == args.board[args.square][1]

DirectAttackersOfPiece ==
    attackers(args.board, ~PieceOnSquare.color, args.square)

\* the direct attackers and those lined up behind them at any depth
TransitiveAttackersOfPiece ==
    BatteryClosure(args.board, args.square, ~PieceOnSquare.color,
                   DirectAttackersOfPiece)

\* who recaptures, directly or from behind, once the piece on sq has taken
RecapturersAfter(sq) ==
    LET after == AfterCapture(args.board, args.square, sq)
    IN  BatteryClosure(after, args.square, PieceOnSquare.color,
                       attackers(after, PieceOnSquare.color, args.square))

\* the defenders of section 4.1: those of the attacker square that leaves the
\* fewest recapturers, the lowest square first
DefendersOfPieceOnSquare ==
    IF DirectAttackersOfPiece = {}
    THEN attackers(WithFlippedColor(args.board, args.square, PieceOnSquare),
                   PieceOnSquare.color, args.square)
    ELSE RecapturersAfter(SetMin(
             {a \in DirectAttackersOfPiece :
                 \A b \in DirectAttackersOfPiece :
                     Cardinality(RecapturersAfter(a))
                         <= Cardinality(RecapturersAfter(b))}))

\* the sets of squares in the three lists the function builds
ListedTransitiveAttackers ==
    Elements(get_attacking_moves(args.board, args.square,
                                 ~PieceOnSquare.color, TRUE))

ListedDefenders ==
    Elements(get_defending_moves(args.board, args.square,
                                 PieceOnSquare.color, TRUE))

\* the decision order of the claim over given attackers and defenders
DecidedInOrder(all_attackers, defenders) ==
    IF args.board[args.square] = None THEN ret[1] = TRUE
    ELSE IF FavourableExchange(args.board, PieceOnSquare, args.played_move,
                               all_attackers, defenders)
    THEN ret[1] = TRUE
    ELSE IF LowerValuedAttacker(args.board, PieceOnSquare,
                                DirectAttackersOfPiece)
    THEN ret[1] = FALSE
    ELSE ret[1] = (\/ AttackersCovered(all_attackers, defenders)
                   \/ CheapDefender(args.board, PieceOnSquare,
                                    DirectAttackersOfPiece, defenders)
                   \/ PawnDefender(args.board, defenders))

\* C20: is_piece_safe decides by the first matching rule: an empty square is
\* safe; the favourable exchange is safe; then a direct attacker of strictly
\* lower value makes the piece unsafe, whatever the counts and the
\* defenders; only without such an attacker is the piece safe by the
\* count of transitive attackers against defenders, by a cheap defender or
\* by a pawn defender, and unsafe when none of these matches.
C20_FirstMatchingRuleDecides ==
    SafetyDecided =>
        DecidedInOrder(
            IF args.board[args.square] = None THEN {}
            ELSE TransitiveAttackersOfPiece,
            IF args.board[args.square] = None THEN {}
            ELSE DefendersOfPieceOnSquare)

\* C20 over the attackers and defenders as the function lists them
C20_OrderOverListedSets ==
    SafetyDecided =>
        DecidedInOrder(
            IF args.board[args.square] = None THEN {}
            ELSE ListedTransitiveAttackers,
            IF args.board[args.square] = None THEN {}
            ELSE ListedDefenders)

\* ------------------------------------------------------------------------
\* piece_safety.py: get_unsafe_pieces; danger_levels.py
\* ------------------------------------------------------------------------
\* temp_board.push(move) for a move without castling, promotion or en passant
Push(board, move) ==
    [board EXCEPT ![move.to_square] = board[move.from_square],
                  ![move.from_square] = None]

\* lines 89-95 of piece_safety.py: the value of the piece found on the
\* to-square of played_move on the board that was passed in
captured_piece_value(board, played_move) ==
    IF played_move # None /\ piece_at(board, played_move[1].to_square) # None
    THEN ValueAt(board, played_move[1].to_square)
    ELSE 0

\* lines 100-106: the test of one square
IsUnsafePiece(board, color, played_move, square) ==
    /\ board[square] # None
    /\ board[square][1].color = color
    /\ board[square][1].piece_type \notin {PAWN, KING}
    /\ ValueAt(board, square) > captured_piece_value(board, played_move)
    /\ ~is_piece_safe(board, square, played_move)

get_unsafe_pieces(board, color, played_move) ==
    ListOf({square \in DOMAIN board :
               IsUnsafePiece(board, color, played_move, square)})

\* lines 42-49 and 53-60 of danger_levels.py: the unsafe pieces other than
\* the threatened one and worth at least as much
RelativeThreats(board, unsafe, threatened_square, threatened_piece) ==
    SelectSeq(unsafe,
              LAMBDA sq : /\ sq # threatened_square
                          /\ piece_at(board, sq) # None
                          /\ ValueAt(board, sq)
                                 >= PIECE_VALUES[threatened_piece.piece_type])

\* temp_board.is_checkmate(): in check and without a legal move
is_checkmate(facts) == facts.is_check /\ facts.legal_moves = 0

\* lines 70-71 and 118-119: every legal move is pushed and popped again, the
\* first of them is kept, and is_checkmate() is asked of the restored
\* temp_board once for it; any() of no element is False
AnyCheckmateForFirstLegalMove(facts) ==
    IF facts.legal_moves = 0 THEN FALSE ELSE is_checkmate(facts)

\* lines 69-72 and 117-120
MateSacrifice(threatened_piece, facts) ==
    /\ PIECE_VALUES[threatened_piece.piece_type] < PIECE_VALUES[QUEEN]
    /\ AnyCheckmateForFirstLegalMove(facts)

\* lines 41-63: the relative threats after the move that were none before
NewThreats(board, temp_board, acting_color, threatened_square, threatened_piece, acting_move) ==
    LET previous_relative_threats ==
            RelativeThreats(board, get_unsafe_pieces(board, acting_color, None),
                            threatened_square, threatened_piece)
        current_relative_threats ==
            RelativeThreats(temp_board,
                            get_unsafe_pieces(temp_board, acting_color,
                                              Some(acting_move)),
                            threatened_square, threatened_piece)
    IN  SelectSeq(current_relative_threats,
                  LAMBDA sq : sq \notin Elements(previous_relative_threats))

\* lines 37-74 with temp_board the position after the move; acting_color is
\* not temp_board.turn, which is board.turn, and after the facts of temp_board
CreatesAfterPush(board, temp_board, acting_color, threatened_square, threatened_piece, acting_move, after) ==
    IF NewThreats(board, temp_board, acting_color, threatened_square,
                  threatened_piece, acting_move) # << >>
    THEN TRUE
    ELSE MateSacrifice(threatened_piece, after)

move_creates_greater_threat(board, turn, threatened_square, acting_move, after) ==
    IF piece_at(board, threatened_square) = None THEN FALSE
    ELSE CreatesAfterPush(board, Push(board, acting_move), turn,
                          threatened_square, board[threatened_square][1],
                          acting_move, after)

\* lines 99-122
LeavesAfterPush(temp_board, acting_color, threatened_square, threatened_piece, after) ==
    IF RelativeThreats(temp_board,
                       get_unsafe_pieces(temp_board, acting_color, None),
                       threatened_square, threatened_piece) # << >>
    THEN TRUE
    ELSE MateSacrifice(threatened_piece, after)

move_leaves_greater_threat(board, turn, threatened_square, acting_move, after) ==
    IF piece_at(board, threatened_square) = None THEN FALSE
    ELSE LeavesAfterPush(Push(board, acting_move), turn, threatened_square,
                         board[threatened_square][1], after)

\* ------------------------------------------------------------------------
\* Calls of the danger-level comparator
\* ------------------------------------------------------------------------
\* most pieces on the squares of DangerRegion
MaxPieces == 3

\* d4, d5, e5, c3, f3 and d6
DangerRegion == {TargetSquare, 35, DiagonalSquare, PawnSquare, KnightSquare, 43}

DangerContents ==
    {Some(Piece(t, WHITE)) : t \in {KNIGHT, ROOK, QUEEN}}
    \cup {Some(Piece(t, BLACK)) : t \in {PAWN, ROOK}}

Occupied(board) == {sq \in DOMAIN board : board[sq] # None}

\* a pawn stands where its colour attacks d4: Black's on e5, White's on c3
PawnsInPlace(board) ==
    \A sq \in Occupied(board) :
        board[sq][1].piece_type = PAWN =>
            sq = (IF board[sq][1].color = BLACK THEN DiagonalSquare
                  ELSE PawnSquare)

DangerPositions ==
    UNION {{[sq \in DangerRegion |-> IF sq \in DOMAIN placed THEN placed[sq]
                                     ELSE None] :
               placed \in [squares -> DangerContents]} :
           squares \in {S \in SUBSET DangerRegion : Cardinality(S) <= MaxPieces}}

\* the moves of the side to move inside the region: a piece of that side goes
\* to a square it attacks that is empty or holds a piece of the other side
MovesOf(board, turn) ==
    {m \in [from_square : Occupied(board), to_square : DangerRegion] :
        /\ board[m.from_square][1].color = turn
        /\ Attacks(board, board[m.from_square][1], m.from_square, m.to_square)
        /\ board[m.to_square] # None =>
               board[m.to_square][1].color # turn
        /\ board[m.from_square][1].piece_type = PAWN =>
               board[m.to_square] # None}

ThreatenedSquares == {TargetSquare, KnightSquare}

\* is_check and the number of legal moves of the position after the move
AfterFacts == [is_check : BOOLEAN, legal_moves : 0 .. MaxLegal]

DangerCalls ==
    {a \in [fn : {"get_unsafe_pieces", "move_creates_greater_threat",
                  "move_leaves_greater_threat"},
            board : {b \in DangerPositions : PawnsInPlace(b)},
            turn : BOOLEAN,
            threatened_square : ThreatenedSquares,
            acting_move : [from_square : DangerRegion, to_square : DangerRegion],
            after : AfterFacts] :
        /\ a.acting_move \in MovesOf(a.board, a.turn)
        /\ a.fn = "get_unsafe_pieces" =>
               /\ a.threatened_square = TargetSquare
               /\ a.after = [is_check |-> FALSE, legal_moves |-> 1]}

InitDanger ==
    /\ args \in DangerCalls
    /\ ret = None
    /\ frame = None
    /\ IdleReview
    /\ IdleOracle
    /\ IdleApp

\* line 52 of danger_levels.py: the unsafe pieces of the side that moved, on
\* the position after the move
GetUnsafePiecesAfterMove ==
    /\ args.fn = "get_unsafe_pieces"
    /\ ret = None
    /\ ret' = Some(get_unsafe_pieces(Push(args.board, args.acting_move),
                                     args.turn, Some(args.acting_move)))
    /\ UNCHANGED <<args, frame, reviewVars, oracleVars, appVars>>

MoveCreatesGreaterThreat ==
    /\ args.fn = "move_creates_greater_threat"
    /\ ret = None
    /\ ret' = Some(move_creates_greater_threat(args.board, args.turn,
                       args.threatened_square, args.acting_move, args.after))
    /\ UNCHANGED <<args, frame, reviewVars, oracleVars, appVars>>

MoveLeavesGreaterThreat ==
    /\ args.fn = "move_leaves_greater_threat"
    /\ ret = None
    /\ ret' = Some(move_leaves_greater_threat(args.board, args.turn,
                       args.threatened_square, args.acting_move, args.after))
    /\ UNCHANGED <<args, frame, reviewVars, oracleVars, appVars>>

NextDanger ==
    \/ GetUnsafePiecesAfterMove
    \/ MoveCreatesGreaterThreat
    \/ MoveLeavesGreaterThreat

SpecDanger == InitDanger /\ [][NextDanger]_vars

UnsafePiecesDecided == args.fn = "get_unsafe_pieces" /\ ret # None

PositionAfterMove == Push(args.board, args.acting_move)

\* the value of what the move captured: of the piece that stood on its
\* to-square before the move, 0 when the square was empty
CapturedValue ==
    IF args.board[args.acting_move.to_square] # None
    THEN ValueAt(args.board, args.acting_move.to_square)
    ELSE 0

\* C21: called for the position after the move, get_unsafe_pieces returns
\* exactly the pieces of the colour that are no pawn and no king, fail
\* is_piece_safe and are worth more than the piece the move captured; a move
\* that captured nothing excludes no piece.
C21_UnsafePiecesExactly ==
    UnsafePiecesDecided =>
        Elements(ret[1]) =
            {sq \in DangerRegion :
                /\ PositionAfterMove[sq] # None
                /\ PositionAfterMove[sq][1].color = args.turn
                /\ PositionAfterMove[sq][1].piece_type \notin {PAWN, KING}
                /\ ~is_piece_safe(PositionAfterMove, sq, Some(args.acting_move))
                /\ ValueAt(PositionAfterMove, sq) > CapturedValue}

ThreatDecided ==
    /\ args.fn \in {"move_creates_greater_threat", "move_leaves_greater_threat"}
    /\ ret # None

\* C22: both comparators answer true when the threatened piece is worth less
\* than a queen and the opponent is checkmated once the move is applied.
C22_MateSacrificeIsGreaterThreat ==
    (/\ ThreatDecided
     /\ args.board[args.threatened_square] # None
     /\ ValueAt(args.board, args.threatened_square) < PIECE_VALUES[QUEEN]
     /\ args.after.is_check
     /\ args.after.legal_moves = 0)
        => ret[1] = TRUE

\* ------------------------------------------------------------------------
\* Position objects: which object each statement of an analysis call changes
\* ------------------------------------------------------------------------
\* A chess.Board object is its piece placement, its side to move and its move
\* stack.  objects is the sequence of the objects alive; a reference is an
\* index into it.  A local of a call dies when the call returns or the name
\* is bound again.

\* board.copy(): a new object with the same contents; its reference is
\* Len(objects) + 1
board_copy(objects, board) == Append(objects, objects[board])

NewReference(objects) == Len(objects) + 1

\* board.push(move): the move is made, the turn passes and the move is
\* stacked with what is needed to take it back
board_push(objects, board, move) ==
    [objects EXCEPT ![board] =
        [placement |-> Push(@.placement, move),
         turn |-> ~@.turn,
         move_stack |-> Append(@.move_stack,
                               [move |-> move,
                                captured |-> @.placement[move.to_square]])]]

\* board.pop(): the last move of the stack is taken back
board_pop(objects, board) ==
    LET last == objects[board].move_stack[Len(objects[board].move_stack)]
        moved == objects[board].placement[last.move.to_square]
    IN  [objects EXCEPT ![board] =
            [placement |->
                 [@.placement EXCEPT ![last.move.from_square] = moved,
                                     ![last.move.to_square] = last.captured],
             turn |-> ~@.turn,
             move_stack |-> SubSeq(@.move_stack, 1, Len(@.move_stack) - 1)]]

\* board.turn = color
board_set_turn(objects, board, color) ==
    [objects EXCEPT ![board].turn = color]

board_remove_piece_at(objects, board, square) ==
    [objects EXCEPT ![board].placement = remove_piece_at(@, square)]

board_set_piece_at(objects, board, square, piece) ==
    [objects EXCEPT ![board].placement = set_piece_at(@, square, piece)]

\* the objects that outlive a call entered with alive objects
Return(objects, alive) == SubSeq(objects, 1, alive)

\* attackers_defenders.py lines 46-47, one pass of the while loop for a
\* popped attacker that is no king
RemoveOnCopy(objects, board, current_attacker) ==
    Return(board_remove_piece_at(board_copy(objects, board),
                                 NewReference(objects), current_attacker),
           Len(objects))

RECURSIVE WhileFrontierOn(_, _, _)
WhileFrontierOn(objects, board, popped) ==
    IF popped = << >> THEN objects
    ELSE WhileFrontierOn(RemoveOnCopy(objects, board, Head(popped)), board,
                         Tail(popped))

\* every attacker of the returned list has been popped once; a king is
\* skipped before the copy (lines 41-43)
PoppedNonKings(placement, target_square, attacking_color) ==
    SelectSeq(get_attacking_moves(placement, target_square, attacking_color,
                                  TRUE),
              LAMBDA sq : placement[sq][1].piece_type # KING)

get_attacking_moves_on(objects, board, target_square, attacking_color, transitive) ==
    IF ~transitive THEN objects
    ELSE WhileFrontierOn(objects, board,
                         PoppedNonKings(objects[board].placement,
                                        target_square, attacking_color))

\* lines 84-86: the piece of the target square changes colour on a copy
FlipOnCopy(objects, board, target_square, piece) ==
    Return(board_set_piece_at(
               board_remove_piece_at(board_copy(objects, board),
                                     NewReference(objects), target_square),
               NewReference(objects), target_square,
               Piece(piece.piece_type, ~piece.color)),
           Len(objects))

\* lines 99-102: the capture is played on a copy
CaptureOnCopy(objects, board, target_square, attacker_square) ==
    board_remove_piece_at(
        board_set_piece_at(
            board_remove_piece_at(board_copy(objects, board),
                                  NewReference(objects), target_square),
            NewReference(objects), target_square,
            objects[board].placement[attacker_square][1]),
        NewReference(objects), attacker_square)

\* lines 93-109, one pass of the for loop
RecaptureOn(objects, board, target_square, defending_color, transitive, attacker_square) ==
    Return(get_attacking_moves_on(
               CaptureOnCopy(objects, board, target_square, attacker_square),
               NewReference(objects), target_square, defending_color,
               transitive),
           Len(objects))

RECURSIVE ForEachAttackerOn(_, _, _, _, _, _)
ForEachAttackerOn(objects, board, target_square, defending_color, transitive, attackers_left) ==
    IF attackers_left = << >> THEN objects
    ELSE ForEachAttackerOn(
             RecaptureOn(objects, board, target_square, defending_color,
                         transitive, Head(attackers_left)),
             board, target_square, defending_color, transitive,
             Tail(attackers_left))

DefendingOfPieceOn(objects, board, target_square, defending_color, transitive, direct) ==
    IF direct = << >>
    THEN FlipOnCopy(objects, board, target_square,
                    objects[board].placement[target_square][1])
    ELSE ForEachAttackerOn(objects, board, target_square, defending_color,
                           transitive, direct)

get_defending_moves_on(objects, board, target_square, defending_color, transitive) ==
    IF piece_at(objects[board].placement, target_square) = None THEN objects
    ELSE DefendingOfPieceOn(
             get_attacking_moves_on(objects, board, target_square,
                                    ~defending_color, FALSE),
             board, target_square, defending_color, transitive,
             get_attacking_moves(objects[board].placement, target_square,
                                 ~defending_color, FALSE))

\* piece_safety.py lines 31-33: the three calls made before any rule
SafetyCallsOn(objects, board, square, color) ==
    get_defending_moves_on(
        get_attacking_moves_on(
            get_attacking_moves_on(objects, board, square, ~color, FALSE),
            board, square, ~color, TRUE),
        board, square, color, TRUE)

is_piece_safe_on(objects, board, square, played_move) ==
    IF piece_at(objects[board].placement, square) = None THEN objects
    ELSE SafetyCallsOn(objects, board, square,
                       objects[board].placement[square][1].color)

\* piece_safety.py lines 100-106: is_piece_safe is called for the squares
\* that pass the tests before it
SafetyAsked(placement, color, played_move) ==
    ListOf({square \in DOMAIN placement :
               /\ placement[square] # None
               /\ placement[square][1].color = color
               /\ placement[square][1].piece_type \notin {PAWN, KING}
               /\ ValueAt(placement, square)
                      > captured_piece_value(placement, played_move)})

RECURSIVE ForEachSquareOn(_, _, _, _)
ForEachSquareOn(objects, board, played_move, squares) ==
    IF squares = << >> THEN objects
    ELSE ForEachSquareOn(is_piece_safe_on(objects, board, Head(squares),
                                          played_move),
                         board, played_move, Tail(squares))

get_unsafe_pieces_on(objects, board, color, played_move) ==
    ForEachSquareOn(objects, board, played_move,
                    SafetyAsked(objects[board].placement, color, played_move))

\* danger_levels.py lines 31-33 and 94-96
PushOnCopy(objects, board, move) ==
    board_push(board_copy(objects, board), NewReference(objects), move)

\* lines 70-71: every legal move of temp_board is pushed and popped
RECURSIVE PushAndPopOn(_, _, _)
PushAndPopOn(objects, board, moves) ==
    IF moves = {} THEN objects
    ELSE LET m == CHOOSE m \in moves : TRUE
         IN  PushAndPopOn(board_pop(board_push(objects, board, m), board),
                          board, moves \ {m})

\* lines 69-72: Python's and asks for the moves only below a queen's value
MateClauseOn(objects, temp_board, threatened_piece) ==
    IF PIECE_VALUES[threatened_piece.piece_type] < PIECE_VALUES[QUEEN]
    THEN PushAndPopOn(objects, temp_board,
                      MovesOf(objects[temp_board].placement,
                              objects[temp_board].turn))
    ELSE objects

\* lines 41-72 once temp_board exists
CreatesOn(objects, board, temp_board, acting_color, threatened_square, threatened_piece, acting_move) ==
    LET unsafe_asked ==
            get_unsafe_pieces_on(
                get_unsafe_pieces_on(objects, board, acting_color, None),
                temp_board, acting_color, Some(acting_move))
    IN  IF NewThreats(objects[board].placement, objects[temp_board].placement,
                      acting_color, threatened_square, threatened_piece,
                      acting_move) # << >>
        THEN unsafe_asked
        ELSE MateClauseOn(unsafe_asked, temp_board, threatened_piece)

move_creates_greater_threat_on(objects, board, threatened_square, acting_move) ==
    IF piece_at(objects[board].placement, threatened_square) = None
    THEN objects
    ELSE Return(CreatesOn(PushOnCopy(objects, board, acting_move), board,
                          NewReference(objects), objects[board].turn,
                          threatened_square,
                          objects[board].placement[threatened_square][1],
                          acting_move),
                Len(objects))

\* lines 99-120 once temp_board exists
LeavesOn(objects, temp_board, acting_color, threatened_square, threatened_piece) ==
    LET unsafe_asked ==
            get_unsafe_pieces_on(objects, temp_board, acting_color, None)
    IN  IF RelativeThreats(objects[temp_board].placement,
                           get_unsafe_pieces(objects[temp_board].placement,
                                             acting_color, None),
                           threatened_square, threatened_piece) # << >>
        THEN unsafe_asked
        ELSE MateClauseOn(unsafe_asked, temp_board, threatened_piece)

move_leaves_greater_threat_on(objects, board, threatened_square, acting_move) ==
    IF piece_at(objects[board].placement, threatened_square) = None
    THEN objects
    ELSE Return(LeavesOn(PushOnCopy(objects, board, acting_move),
                         NewReference(objects), objects[board].turn,
                         threatened_square,
                         objects[board].placement[threatened_square][1]),
                Len(objects))

\* ------------------------------------------------------------------------
\* piece_trapped.py
\* ------------------------------------------------------------------------
\* line 43: the moves of the piece on square, by their to-squares
piece_moves(placement, square) ==
    ListOf({m.to_square :
               m \in {m \in MovesOf(placement, placement[square][1].color) :
                         m.from_square = square}})

IsKingCapture(placement, to_square) ==
    /\ placement[to_square] # None
    /\ placement[to_square][1].piece_type = KING

\* lines 45-60 on piece placements: board as the caller holds it, temp_board
\* with the piece's colour to move
RECURSIVE SafeMoveFound(_, _, _, _, _, _)
SafeMoveFound(board, turn, square, danger_levels, after, to_squares) ==
    IF to_squares = << >> THEN FALSE
    ELSE LET move == [from_square |-> square, to_square |-> Head(to_squares)]
         IN  IF \/ IsKingCapture(board, move.to_square)
                \/ danger_levels /\ move_creates_greater_threat(
                                        board, turn, square, move, after)
             THEN SafeMoveFound(board, turn, square, danger_levels, after,
                                Tail(to_squares))
             ELSE \/ is_piece_safe(Push(board, move), move.to_square,
                                   Some(move))
                  \/ SafeMoveFound(board, turn, square, danger_levels, after,
                                   Tail(to_squares))

is_piece_trapped(board, turn, square, danger_levels, after) ==
    IF piece_at(board, square) = None THEN FALSE
    ELSE IF is_piece_safe(board, square, None) THEN FALSE
    ELSE ~SafeMoveFound(board, turn, square, danger_levels, after,
                        piece_moves(board, square))

\* the turn assigned on the object of the caller instead of the copy
TurnOnCaller(objects, board, color) ==
    board_set_turn(board_copy(objects, board), board, color)

\* lines 39-40
TurnOnCopy(objects, board, color) ==
    board_set_turn(board_copy(objects, board), NewReference(objects), color)

\* lines 55-57
SafeAfterMoveOn(objects, temp_board, move) ==
    board_pop(is_piece_safe_on(board_push(objects, temp_board, move),
                               temp_board, move.to_square, Some(move)),
              temp_board)

\* line 51: Python's and calls the comparator only with danger levels on
ThreatAskedOn(objects, board, square, danger_levels, move) ==
    IF danger_levels
    THEN move_creates_greater_threat_on(objects, board, square, move)
    ELSE objects

\* lines 45-60
RECURSIVE ForEachMoveOn(_, _, _, _, _, _, _)
ForEachMoveOn(objects, board, temp_board, square, danger_levels, after, to_squares) ==
    IF to_squares = << >> THEN objects
    ELSE LET move == [from_square |-> square, to_square |-> Head(to_squares)]
         IN  IF IsKingCapture(objects[temp_board].placement, move.to_square)
             THEN ForEachMoveOn(objects, board, temp_board, square,
                                danger_levels, after, Tail(to_squares))
             ELSE IF danger_levels
                     /\ move_creates_greater_threat(
                            objects[board].placement, objects[board].turn,
                            square, move, after)
             THEN ForEachMoveOn(
                      ThreatAskedOn(objects, board, square, danger_levels,
                                    move),
                      board, temp_board, square, danger_levels, after,
                      Tail(to_squares))
             ELSE IF is_piece_safe(Push(objects[temp_board].placement, move),
                                   move.to_square, Some(move))
             THEN SafeAfterMoveOn(
                      ThreatAskedOn(objects, board, square, danger_levels,
                                    move),
                      temp_board, move)
             ELSE ForEachMoveOn(
                      SafeAfterMoveOn(
                          ThreatAskedOn(objects, board, square, danger_levels,
                                        move),
                          temp_board, move),
                      board, temp_board, square, danger_levels, after,
                      Tail(to_squares))

\* lines 34-62 for a piece on square
TrappedOfPieceOn(objects, board, square, danger_levels, after) ==
    IF is_piece_safe(objects[board].placement, square, None)
    THEN is_piece_safe_on(objects, board, square, None)
    ELSE Return(ForEachMoveOn(
                    TurnOnCopy(is_piece_safe_on(objects, board, square, None),
                               board,
                               objects[board].placement[square][1].color),
                    board, NewReference(objects), square, danger_levels,
                    after, piece_moves(objects[board].placement, square)),
                Len(objects))

is_piece_trapped_on(objects, board, square, danger_levels, after) ==
    IF piece_at(objects[board].placement, square) = None THEN objects
    ELSE TrappedOfPieceOn(objects, board, square, danger_levels, after)

\* ------------------------------------------------------------------------
\* advanced_move_classifier.py: the statements that touch a position object
\* ------------------------------------------------------------------------
\* lines 64-72 of _is_sacrifice_move
_is_sacrifice_move_on(objects, board, move) ==
    IF \/ piece_at(objects[board].placement, move.from_square) = None
       \/ objects[board].placement[move.from_square][1].piece_type = KING
    THEN objects
    ELSE Return(PushOnCopy(objects, board, move), Len(objects))

\* board_before.gives_check(move) of the chess library: the move is pushed
\* on the board itself, is_check() is asked and the move is popped
gives_check_on(objects, board, move) ==
    board_pop(board_push(objects, board, move), board)

\* lines 189-193 of _consider_great_classification: or stops at the first
\* true operand
TacticalTestOn(objects, board, move, path) ==
    IF piece_at(objects[board].placement, move.to_square) # None THEN objects
    ELSE IF path.gives_check THEN gives_check_on(objects, board, move)
    ELSE _is_sacrifice_move_on(gives_check_on(objects, board, move), board,
                               move)

\* lines 163-193: the tactical test is reached with both candidates present
\* when the move is not the best one and loses little
_consider_great_classification_on(objects, board, move, path) ==
    IF path.evaluations /\ path.near_best
    THEN TacticalTestOn(objects, board, move, path)
    ELSE objects

\* lines 121-125
_consider_brilliant_classification_on(objects, board, move, path) ==
    IF path.evaluations THEN _is_sacrifice_move_on(objects, board, move)
    ELSE objects

\* lines 321-326
ConsiderOn(objects, board, move, path) ==
    IF path.brilliant
    THEN _consider_brilliant_classification_on(objects, board, move, path)
    ELSE _consider_great_classification_on(
             _consider_brilliant_classification_on(objects, board, move,
                                                   path),
             board, move, path)

\* lines 286-333
classify_move_on(objects, board_before, move, path) ==
    IF path.legal_moves <= 1 THEN objects
    ELSE IF path.opening_name THEN objects
    ELSE IF path.checkmate
    THEN Return(PushOnCopy(objects, board_before, move), Len(objects))
    ELSE Return(ConsiderOn(PushOnCopy(objects, board_before, move),
                           board_before, move, path),
                Len(objects))

\* ------------------------------------------------------------------------
\* Analysis calls on a position object of the caller
\* ------------------------------------------------------------------------
AnalysisCalls ==
    {"classify_move", "_is_sacrifice_move", "is_piece_safe",
     "get_unsafe_pieces", "get_attacking_moves", "get_defending_moves",
     "move_creates_greater_threat", "move_leaves_greater_threat",
     "is_piece_trapped"}

\* the ways through classify_move: the number of legal moves, an opening
\* name, mate after the move, candidates present, the brilliant test passed,
\* a small loss of a move that is not the best, and the answer of gives_check
ClassifyPaths ==
    {p \in [legal_moves : 1 .. MaxLegal, opening_name : BOOLEAN,
            checkmate : BOOLEAN, evaluations : BOOLEAN, brilliant : BOOLEAN,
            near_best : BOOLEAN, gives_check : BOOLEAN] :
        /\ p.brilliant => p.evaluations
        /\ p.near_best => p.evaluations
        /\ (p.legal_moves <= 1 \/ p.opening_name) =>
               ~p.checkmate /\ ~p.evaluations /\ ~p.gives_check
        /\ p.checkmate => ~p.evaluations /\ ~p.gives_check}

NoPath ==
    [legal_moves |-> MaxLegal, opening_name |-> FALSE, checkmate |-> FALSE,
     evaluations |-> FALSE, brilliant |-> FALSE, near_best |-> FALSE,
     gives_check |-> FALSE]

QuietFacts == [is_check |-> FALSE, legal_moves |-> 1]

MateFacts == [is_check |-> TRUE, legal_moves |-> 0]

\* the caller's object: a position of the region, either side to move, no
\* move played yet
CallerBoards ==
    [placement : {b \in DangerPositions : PawnsInPlace(b)},
     turn : BOOLEAN,
     move_stack : {<< >>}]

\* a call: flag is transitive for the attackers and defenders and
\* danger_levels for is_piece_trapped
Call(fn, board, square, move, flag, after, path) ==
    [fn |-> fn, board |-> board, square |-> square, move |-> move,
     flag |-> flag, after |-> after, path |-> path]

FlaggedCalls == {"get_attacking_moves", "get_defending_moves"}

PlainCalls == AnalysisCalls \ (FlaggedCalls \cup {"classify_move", "is_piece_trapped"})

CallsOn(board, move) ==
    {Call(fn, board, square, move, TRUE, QuietFacts, NoPath) :
        fn \in PlainCalls, square \in ThreatenedSquares}
    \cup {Call(fn, board, square, move, flag, QuietFacts, NoPath) :
              fn \in FlaggedCalls, square \in ThreatenedSquares,
              flag \in BOOLEAN}
    \cup {Call("is_piece_trapped", board, square, move, flag, after, NoPath) :
              square \in ThreatenedSquares, flag \in BOOLEAN,
              after \in {QuietFacts, MateFacts}}
    \cup {Call("classify_move", board, TargetSquare, move, TRUE, QuietFacts,
               path) : path \in ClassifyPaths}

InitFrame ==
    /\ \E board \in CallerBoards :
           \E move \in MovesOf(board.placement, board.turn) :
               args \in CallsOn(board, move)
    /\ ret = None
    /\ frame = None
    /\ IdleReview
    /\ IdleOracle
    /\ IdleApp

\* the objects alive when the call is made: the caller's position
CallerReference == 1

Alive == <<args.board>>

\* the call returns: frame holds the objects alive afterwards
Returns(fn, objects) ==
    /\ args.fn = fn
    /\ "path" \in DOMAIN args
    /\ ret = None
    /\ ret' = Some(fn)
    /\ frame' = Some(objects)
    /\ UNCHANGED <<args, reviewVars, oracleVars, appVars>>

CallClassifyMove ==
    Returns("classify_move",
            classify_move_on(Alive, CallerReference, args.move, args.path))

CallIsSacrificeMove ==
    Returns("_is_sacrifice_move",
            _is_sacrifice_move_on(Alive, CallerReference, args.move))

\* called for the piece on square with the move as played_move
CallIsPieceSafe ==
    Returns("is_piece_safe",
            is_piece_safe_on(Alive, CallerReference, args.square,
                             Some(args.move)))

CallGetUnsafePieces ==
    Returns("get_unsafe_pieces",
            get_unsafe_pieces_on(Alive, CallerReference, args.board.turn,
                                 Some(args.move)))

CallGetAttackingMoves ==
    Returns("get_attacking_moves",
            get_attacking_moves_on(Alive, CallerReference, args.square,
                                   args.board.turn, args.flag))

CallGetDefendingMoves ==
    Returns("get_defending_moves",
            get_defending_moves_on(Alive, CallerReference, args.square,
                                   args.board.turn, args.flag))

CallMoveCreatesGreaterThreat ==
    Returns("move_creates_greater_threat",
            move_creates_greater_threat_on(Alive, CallerReference,
                                           args.square, args.move))

CallMoveLeavesGreaterThreat ==
    Returns("move_leaves_greater_threat",
            move_leaves_greater_threat_on(Alive, CallerReference,
                                          args.square, args.move))

CallIsPieceTrapped ==
    Returns("is_piece_trapped",
            is_piece_trapped_on(Alive, CallerReference, args.square,
                                args.flag, args.after))

NextFrame ==
    \/ CallClassifyMove
    \/ CallIsSacrificeMove
    \/ CallIsPieceSafe
    \/ CallGetUnsafePieces
    \/ CallGetAttackingMoves
    \/ CallGetDefendingMoves
    \/ CallMoveCreatesGreaterThreat
    \/ CallMoveLeavesGreaterThreat
    \/ CallIsPieceTrapped

SpecFrame == InitFrame /\ [][NextFrame]_vars

AnalysisReturned == "path" \in DOMAIN args /\ ret # None /\ frame # None

\* C23: after any of the nine analysis calls has returned, on whichever exit
\* path, the position object the caller passed in has the piece placement,
\* the side to move and the move stack it had before the call, and the call
\* left no other object behind.
C23_CallerPositionUnchanged ==
    AnalysisReturned => frame[1] = <<args.board>>

\* is_piece_trapped went through its loop for a piece whose colour is not
\* the side to move: temp_board got its turn set and a move pushed and popped
C23_Witness ==
    /\ AnalysisReturned
    /\ args.fn = "is_piece_trapped"
    /\ args.board.placement[args.square] # None
    /\ args.board.placement[args.square][1].color # args.board.turn
    /\ ~is_piece_safe(args.board.placement, args.square, None)
    /\ piece_moves(args.board.placement, args.square) # << >>
    /\ frame[1] = <<args.board>>

\* ------------------------------------------------------------------------
\* Game review when a step of the move loop raises
\* ------------------------------------------------------------------------
\* lines 855-860: the progress message is put, then set_fen_position or
\* get_top_moves of the oracle raises; the loop is inside no try statement,
\* so the exception ends the thread
ReviewOracleRaises ==
    /\ review.pc = "loop"
    /\ review.i < Len(game)
    /\ review_queue' =
           Append(review_queue,
                  [type |-> "progress", i |-> review.i + 1, n |-> Len(game)])
    /\ review' = [pc |-> "raised"]
    /\ UNCHANGED <<game, review_ui, pureVars, oracleVars, appVars>>

\* lines 867-904: classify_move, get_evaluation or a lookup raises
ReviewClassificationRaises ==
    /\ review.pc = "classify"
    /\ review' = [pc |-> "raised"]
    /\ UNCHANGED <<game, review_queue, review_ui, pureVars, oracleVars, appVars>>

NextReviewRaising ==
    \/ NextReview
    \/ ReviewOracleRaises
    \/ ReviewClassificationRaises

SpecReviewRaising == InitReview /\ [][NextReviewRaising]_vars

\* the thread runs while a step of it can be taken, and the poller
\* reschedules itself with after(100, ...) until a terminal message
FairSpecReviewRaising == SpecReviewRaising /\ WF_vars(NextReviewRaising)

FairSpecReview == SpecReview /\ WF_vars(NextReview)

ReviewStarted == review.pc # "idle"

PollerStopped == review_ui.polling = FALSE

\* C24: once a review has been started its thread eventually puts a terminal
\* message and the poller, having read it, stops rescheduling itself,
\* whatever the oracle does during the pass, a raised exception included.
C24_ReviewEventuallyStopsPolling == ReviewStarted ~> PollerStopped

\* at most one terminal message is ever on the queue, and it is the last one
TerminalLast ==
    \A k \in 1 .. Len(review_queue) :
        review_queue[k].type \in {"done", "error"} => k = Len(review_queue)

\* when no step raises, the poller does stop, after one terminal message
C24_StopsWhenNothingRaises ==
    /\ []TerminalLast
    /\ ReviewStarted ~> PollerStopped

\* ------------------------------------------------------------------------
\* Live evaluation: ChessApp.start_game, create_main_menu, _start_eval_thread,
\* _stop_eval_thread, _eval_loop, _process_eval_queue
\* ------------------------------------------------------------------------
\* threads the application creates for _eval_loop
MaxEvalThreads == 2

\* changes of the analysed position
MaxChanges == 2

\* games started from the menu
MaxGames == 2

\* the positions the analysed board can show, by their FEN
Fens == 0 .. 2

EvalThreadIds == 1 .. MaxEvalThreads

\* a thread object that has not been created yet
Unborn == [pc |-> "unborn", last_analyzed_fen |-> None, fen |-> None]

\* ChessApp.__init__: the menu is shown, the analyzer is not loaded and no
\* evaluation thread exists; last_put records the newest result ever put on
\* eval_queue, changes counts the changes of position and games the games
\* started
InitEval ==
    /\ IdlePure
    /\ IdleReview
    /\ IdleOracle
    /\ app = Some([screen |-> "menu",
                   ui |-> "idle",
                   stockfish_analyzer |-> None,
                   is_loading_stockfish |-> FALSE,
                   loaders |-> 0,
                   eval_thread |-> None,
                   eval_thread_running |-> FALSE,
                   new_eval_request |-> FALSE,
                   eval_queue |-> << >>,
                   last_put |-> None,
                   position |-> 0,
                   changes |-> 0,
                   games |-> 0,
                   loops |-> [t \in EvalThreadIds |-> Unborn]])

App == app[1]

InLoop(t) == App.loops[t].pc \notin {"unborn", "finished"}

is_alive(a, thread) ==
    thread # None /\ a.loops[thread[1]].pc \notin {"unborn", "finished"}

\* _start_eval_thread, lines 583-587; a is the application object
_start_eval_thread(a) ==
    IF is_alive(a, a.eval_thread) THEN a
    ELSE LET t == CHOOSE t \in EvalThreadIds :
                      /\ a.loops[t].pc = "unborn"
                      /\ \A u \in EvalThreadIds :
                             a.loops[u].pc = "unborn" => t <= u
         IN  [a EXCEPT !.eval_thread_running = TRUE,
                       !.eval_thread = Some(t),
                       !.loops[t].pc = "while"]

CanStartThread(a) ==
    \/ is_alive(a, a.eval_thread)
    \/ \E t \in EvalThreadIds : a.loops[t].pc = "unborn"

UiIdle == app # None /\ App.ui = "idle"

\* start_game lines 194-228 with the analyzer not loaded: the loader and the
\* waiter threads are started unless a load is under way
StartGameLoading ==
    /\ UiIdle
    /\ App.screen = "menu"
    /\ App.stockfish_analyzer = None
    /\ App.games < MaxGames
    /\ app' = Some(IF App.is_loading_stockfish
                   THEN [App EXCEPT !.screen = "game", !.games = @ + 1]
                   ELSE [App EXCEPT !.screen = "game", !.games = @ + 1,
                                    !.is_loading_stockfish = TRUE,
                                    !.loaders = @ + 1])
    /\ UNCHANGED <<pureVars, reviewVars, oracleVars>>

\* _load_stockfish_background and enable_stockfish_ui, lines 153-182
EnableStockfishUi ==
    /\ UiIdle
    /\ App.loaders > 0
    /\ CanStartThread(App)
    /\ app' = Some([_start_eval_thread(
                        [App EXCEPT !.stockfish_analyzer = Some("analyzer"),
                                    !.loaders = @ - 1])
                       EXCEPT !.new_eval_request = TRUE,
                              !.is_loading_stockfish = FALSE])
    /\ UNCHANGED <<pureVars, reviewVars, oracleVars>>

\* start_game lines 224-228 with the analyzer loaded
StartGameLoaded ==
    /\ UiIdle
    /\ App.screen = "menu"
    /\ App.stockfish_analyzer # None
    /\ App.games < MaxGames
    /\ CanStartThread(App)
    /\ app' = Some([_start_eval_thread([App EXCEPT !.screen = "game",
                                                   !.games = @ + 1])
                       EXCEPT !.new_eval_request = TRUE])
    /\ UNCHANGED <<pureVars, reviewVars, oracleVars>>

\* reset_game and create_main_menu up to eval_thread.join of
\* _stop_eval_thread, lines 589-593
StopEvalThread ==
    /\ UiIdle
    /\ App.screen = "game"
    /\ app' = Some(IF App.eval_thread # None
                   THEN [App EXCEPT !.screen = "menu",
                                    !.is_loading_stockfish = FALSE,
                                    !.eval_thread_running = FALSE,
                                    !.new_eval_request = TRUE,
                                    !.ui = "join"]
                   ELSE [App EXCEPT !.screen = "menu",
                                    !.is_loading_stockfish = FALSE,
                                    !.eval_thread_running = FALSE])
    /\ UNCHANGED <<pureVars, reviewVars, oracleVars>>

\* join returns because the thread has finished
JoinReturns ==
    /\ app # None
    /\ App.ui = "join"
    /\ ~is_alive(App, App.eval_thread)
    /\ app' = Some([App EXCEPT !.ui = "idle", !.eval_thread = None])
    /\ UNCHANGED <<pureVars, reviewVars, oracleVars>>

\* join(timeout=0.2) returns while the thread is inside an oracle call
JoinTimesOut ==
    /\ app # None
    /\ App.ui = "join"
    /\ is_alive(App, App.eval_thread)
    /\ App.loops[App.eval_thread[1]].pc = "oracle"
    /\ app' = Some([App EXCEPT !.ui = "idle", !.eval_thread = None])
    /\ UNCHANGED <<pureVars, reviewVars, oracleVars>>

\* a move, an undo or redo, or a step through the history shows another
\* position; the handlers set the request event except for a move that ends
\* the game and for navigation with the evaluation bar off
PositionChanges ==
    /\ UiIdle
    /\ App.screen = "game"
    /\ App.changes < MaxChanges
    /\ \E fen \in Fens \ {App.position}, request \in BOOLEAN :
           app' = Some([App EXCEPT !.position = fen,
                                   !.changes = @ + 1,
                                   !.new_eval_request = @ \/ request])
    /\ UNCHANGED <<pureVars, reviewVars, oracleVars>>

\* _process_eval_queue lines 452-471: the queue is emptied
ProcessEvalQueue ==
    /\ UiIdle
    /\ App.eval_queue # << >>
    /\ app' = Some([App EXCEPT !.eval_queue = << >>])
    /\ UNCHANGED <<pureVars, reviewVars, oracleVars>>

\* _eval_loop line 423: while self.eval_thread_running
LoopWhile(t) ==
    /\ app # None
    /\ App.loops[t].pc = "while"
    /\ app' = Some([App EXCEPT !.loops[t].pc =
                       IF App.eval_thread_running THEN "wait" ELSE "finished"])
    /\ UNCHANGED <<pureVars, reviewVars, oracleVars>>

\* wait() without a timeout: it returns only when the event is set
LoopWaitForEvent(t) ==
    /\ app # None
    /\ App.loops[t].pc = "wait"
    /\ App.new_eval_request
    /\ app' = Some([App EXCEPT !.loops[t].pc = "running"])
    /\ UNCHANGED <<pureVars, reviewVars, oracleVars>>

\* line 425: wait(timeout=0.5) returns when the event is set and at the
\* latest after half a second
LoopWait(t) ==
    /\ app # None
    /\ App.loops[t].pc = "wait"
    /\ app' = Some([App EXCEPT !.loops[t].pc = "running"])
    /\ UNCHANGED <<pureVars, reviewVars, oracleVars>>

\* lines 426-443: leave when stopped; otherwise read the FEN of the board
\* shown and ask the oracle when it differs from last_analyzed_fen
LoopRead(t) ==
    /\ app # None
    /\ App.loops[t].pc = "running"
    /\ app' = Some(IF ~App.eval_thread_running
                   THEN [App EXCEPT !.loops[t].pc = "finished"]
                   ELSE IF Some(App.position) # App.loops[t].last_analyzed_fen
                   THEN [App EXCEPT !.loops[t].pc = "oracle",
                                    !.loops[t].fen = Some(App.position)]
                   ELSE [App EXCEPT !.loops[t].pc = "clear"])
    /\ UNCHANGED <<pureVars, reviewVars, oracleVars>>

\* lines 441-444: set_fen_position and get_top_moves return, the result is
\* put on the queue
LoopPut(t) ==
    /\ app # None
    /\ App.loops[t].pc = "oracle"
    /\ app' = Some([App EXCEPT !.eval_queue = Append(@, App.loops[t].fen[1]),
                               !.last_put = App.loops[t].fen,
                               !.loops[t].last_analyzed_fen = App.loops[t].fen,
                               !.loops[t].fen = None,
                               !.loops[t].pc = "clear"])
    /\ UNCHANGED <<pureVars, reviewVars, oracleVars>>

\* line 450: new_eval_request.clear()
LoopClear(t) ==
    /\ app # None
    /\ App.loops[t].pc = "clear"
    /\ app' = Some([App EXCEPT !.new_eval_request = FALSE,
                               !.loops[t].pc = "while"])
    /\ UNCHANGED <<pureVars, reviewVars, oracleVars>>

EvalLoopStep(t) ==
    \/ LoopWhile(t)
    \/ LoopWait(t)
    \/ LoopRead(t)
    \/ LoopPut(t)
    \/ LoopClear(t)

NextEval ==
    \/ StartGameLoading
    \/ EnableStockfishUi
    \/ StartGameLoaded
    \/ StopEvalThread
    \/ JoinReturns
    \/ JoinTimesOut
    \/ PositionChanges
    \/ ProcessEvalQueue
    \/ \E t \in EvalThreadIds : EvalLoopStep(t)

SpecEval == InitEval /\ [][NextEval]_vars

\* a thread that can run does run, and the oracle answers
FairSpecEval ==
    SpecEval /\ \A t \in EvalThreadIds : WF_vars(EvalLoopStep(t))

InsideLoop == {t \in EvalThreadIds : InLoop(t)}

\* C25: at most one thread is inside _eval_loop at any time, so that the
\* analyzer is driven by one thread, after any sequence of starting a game
\* and returning to the menu.
C25_SingleEvalThread == app # None => Cardinality(InsideLoop) <= 1

\* the thread that _start_eval_thread created last is still wanted
Evaluating == app # None /\ App.eval_thread_running

\* the newest result on the evaluation queue is not for the position shown
Stale == app # None /\ App.last_put # Some(App.position)

\* C26: while the evaluation thread is running, a position that has no
\* result yet gets one: the oracle is asked for the latest position and the
\* answer is put on the evaluation queue, also when the request event was set
\* during an analysis and cleared at the end of that pass of the loop.
C26_LatestPositionAnalysed == (Evaluating /\ Stale) ~> (~Evaluating \/ ~Stale)

\* the only thread asks the oracle for the latest position although the
\* request event is clear: an earlier pass of the loop cleared the event and
\* wait returned on its timeout
C26_Witness ==
    /\ app # None
    /\ App.changes > 0
    /\ App.loops[1].pc = "oracle"
    /\ App.loops[1].fen = Some(App.position)
    /\ App.loops[1].last_analyzed_fen # None
    /\ App.loops[2].pc = "unborn"
    /\ ~App.new_eval_request

\* ------------------------------------------------------------------------
\* core/game_logic.py: GameLogic.make_move, undo_move, redo_move, reset
\* ------------------------------------------------------------------------
\* longest game, in plies
MaxPlies == 3

\* the moves a position offers, by name
GameMoves == {"m1", "m2"}

\* GameLogic.__init__ lines 19-20; undone_from records, for each entry of
\* undone_moves, the move stack the move was popped from
NewGameLogic ==
    [board |-> [move_stack |-> << >>], undone_moves |-> << >>,
     undone_from |-> << >>]

Last(s) == s[Len(s)]

Front(s) == SubSeq(s, 1, Len(s) - 1)

\* a call of a method: the object afterwards and the value returned
Outcome(logic, returned) == [logic |-> logic, returned |-> returned]

\* make_move without line 69: the redo stack is kept
make_move_keeping_undone(logic, move, raises) ==
    IF raises THEN Outcome(logic, FALSE)
    ELSE Outcome([logic EXCEPT !.board.move_stack = Append(@, move)], TRUE)

\* lines 67-72; raises tells whether board.push raised ValueError or
\* AssertionError
make_move(logic, move, raises) ==
    IF raises THEN Outcome(logic, FALSE)
    ELSE Outcome([logic EXCEPT !.board.move_stack = Append(@, move),
                               !.undone_moves = << >>,
                               !.undone_from = << >>],
                 TRUE)

\* lines 116-119
undo_move(logic) ==
    IF logic.board.move_stack # << >>
    THEN Outcome([logic EXCEPT
                     !.board.move_stack = Front(@),
                     !.undone_moves = Append(@, Last(logic.board.move_stack)),
                     !.undone_from = Append(@, logic.board.move_stack)],
                 TRUE)
    ELSE Outcome(logic, FALSE)

\* lines 128-131
redo_move(logic) ==
    IF logic.undone_moves # << >>
    THEN Outcome([logic EXCEPT
                     !.board.move_stack = Append(@, Last(logic.undone_moves)),
                     !.undone_moves = Front(@),
                     !.undone_from = Front(@)],
                 TRUE)
    ELSE Outcome(logic, FALSE)

\* lines 176-177
reset(logic) ==
    Outcome([logic EXCEPT !.board.move_stack = << >>,
                          !.undone_moves = << >>,
                          !.undone_from = << >>],
            None)

InitLogic ==
    /\ IdlePure
    /\ IdleReview
    /\ IdleOracle
    /\ app = Some(NewGameLogic)

\* a method of the GameLogic object is called: args is the call, ret the
\* value returned
Called(call, outcome) ==
    /\ app # None
    /\ "undone_from" \in DOMAIN app[1]
    /\ args' = call
    /\ ret' = Some(outcome.returned)
    /\ app' = Some(outcome.logic)
    /\ UNCHANGED <<frame, reviewVars, oracleVars>>

CallMakeMove ==
    \E move \in GameMoves, raises \in BOOLEAN :
        /\ Len(app[1].board.move_stack) < MaxPlies
        /\ Called([fn |-> "make_move", move |-> move, raises |-> raises],
                  make_move(app[1], move, raises))

CallUndoMove == Called([fn |-> "undo_move"], undo_move(app[1]))

CallRedoMove == Called([fn |-> "redo_move"], redo_move(app[1]))

CallReset == Called([fn |-> "reset"], reset(app[1]))

NextLogic ==
    \/ CallMakeMove
    \/ CallUndoMove
    \/ CallRedoMove
    \/ CallReset

SpecLogic == InitLogic /\ [][NextLogic]_vars

Logic == app[1]

\* every move of the redo stack was undone from the position that playing
\* the moves above it again leads to; the top one from the current position
RECURSIVE RedoLeadsBack(_, _, _)
RedoLeadsBack(move_stack, undone_moves, undone_from) ==
    \/ undone_moves = << >>
    \/ /\ Last(undone_from) = Append(move_stack, Last(undone_moves))
       /\ RedoLeadsBack(Append(move_stack, Last(undone_moves)),
                        Front(undone_moves), Front(undone_from))

RedoStackMatches ==
    /\ Len(Logic.undone_from) = Len(Logic.undone_moves)
    /\ RedoLeadsBack(Logic.board.move_stack, Logic.undone_moves,
                     Logic.undone_from)

\* a successful make_move and a reset leave the redo stack empty
ClearsRedoStack ==
    (\/ args'.fn = "reset"
     \/ args'.fn = "make_move" /\ ret' = Some(TRUE))
        => Logic'.undone_moves = << >>

\* redo_move after undo_move gives back the move stack undone from
RedoRestores ==
    (args.fn = "undo_move" /\ ret = Some(TRUE) /\ args'.fn = "redo_move")
        => /\ ret' = Some(TRUE)
           /\ Logic'.board.move_stack = Last(Logic.undone_from)
           /\ Logic'.undone_moves = Front(Logic.undone_moves)

\* on an empty stack undo_move and redo_move return False and change nothing
EmptyStackRefused ==
    /\ (args'.fn = "undo_move" /\ Logic.board.move_stack = << >>)
           => ret' = Some(FALSE) /\ Logic' = Logic
    /\ (args'.fn = "redo_move" /\ Logic.undone_moves = << >>)
           => ret' = Some(FALSE) /\ Logic' = Logic

\* C29: redo_move only re-applies a move that was undone from exactly the
\* current position: a successful make_move and a reset empty the redo
\* stack, undo_move followed by redo_move restores the move stack, and
\* undo_move or redo_move on an empty stack returns False and changes nothing.
C29_RedoOnlyFromCurrentPosition ==
    /\ []RedoStackMatches
    /\ [][ClearsRedoStack /\ RedoRestores /\ EmptyStackRefused]_vars

\* two moves have been undone, one of them has been played again by
\* redo_move and one is still on the redo stack
C29_Witness ==
    /\ args.fn = "redo_move"
    /\ ret = Some(TRUE)
    /\ Logic.undone_moves # << >>
    /\ Logic.board.move_stack # << >>

\* ------------------------------------------------------------------------
\* A game session: ChessApp.start_game, handle_press to finalize_move,
\* trigger_ai_move, make_ai_move, undo_last_move, redo_last_move, nav_*,
\* reset_game (player against player and player against computer)
\* ------------------------------------------------------------------------
\* AI-move jobs scheduled with master.after and not yet fired
MaxJobs == 2

JobIds == 1 .. MaxJobs

\* board.turn of a board with the given move stack
TurnOf(board) == IF Len(board.move_stack) % 2 = 0 THEN WHITE ELSE BLACK

\* board.is_game_over(): the games of the model end with the last ply
is_game_over(board) == Len(board.move_stack) = MaxPlies

\* utils.py lines 64-68 without the cvc mode
is_ai_turn(game_mode, current_turn, player_color) ==
    game_mode = "pvc" /\ player_color # None /\ current_turn # player_color[1]

\* ChessApp.__init__ lines 39-79; ai_job_turn records the side to move found
\* by the job that fired last
InitGame ==
    /\ IdlePure
    /\ IdleReview
    /\ IdleOracle
    /\ app = Some([screen |-> "menu",
                   game_mode |-> None,
                   player_color |-> None,
                   logic |-> NewGameLogic,
                   display_board |-> [move_stack |-> << >>],
                   viewing_history |-> FALSE,
                   game_over_state |-> FALSE,
                   is_enabled |-> TRUE,
                   jobs |-> {},
                   ai_move_job_id |-> None,
                   ai_job_turn |-> None])

\* nav_to_end lines 380-388
nav_to_end(a) ==
    [a EXCEPT !.display_board = a.logic.board, !.viewing_history = FALSE]

\* trigger_ai_move lines 739-744: master.after returns a new job id
trigger_ai_move(a) ==
    LET job == CHOOSE j \in JobIds \ a.jobs :
                   \A k \in JobIds \ a.jobs : j <= k
    IN  [a EXCEPT !.is_enabled = FALSE,
                  !.jobs = @ \cup {job},
                  !.ai_move_job_id = Some(job)]

\* self.game_mode, None before the first game
ModeOf(a) == IF a.game_mode = None THEN "none" ELSE a.game_mode[1]

\* after_animation lines 485-505 once make_move has succeeded
AfterMove(a) ==
    IF is_game_over(a.logic.board)
    THEN [a EXCEPT !.game_over_state = TRUE, !.is_enabled = TRUE]
    ELSE IF is_ai_turn(ModeOf(a), TurnOf(a.logic.board), a.player_color)
    THEN trigger_ai_move(a)
    ELSE [a EXCEPT !.is_enabled = TRUE]

\* finalize_move lines 480-511 with the animation over (animate_move ends
\* before the next event) and no premove
finalize_move(a, move) ==
    AfterMove(nav_to_end([a EXCEPT !.logic = make_move(@, move, FALSE).logic]))

\* the job can be scheduled: Tk holds fewer than MaxJobs of them
CanSchedule(a) == Cardinality(a.jobs) < MaxJobs

Session ==
    app # None /\ "logic" \in DOMAIN app[1] /\ "screen" \in DOMAIN app[1]

\* start_game lines 194-231: display_board and viewing_history are left as
\* they are
StartGameMode ==
    /\ Session
    /\ App.screen = "menu"
    /\ CanSchedule(App)
    /\ \E mode \in {"pvp", "pvc"}, color \in BOOLEAN :
           LET started ==
                   [App EXCEPT !.screen = "game",
                               !.game_mode = Some(mode),
                               !.game_over_state = FALSE,
                               !.is_enabled = TRUE,
                               !.ai_job_turn = None,
                               !.player_color =
                                   IF mode = "pvc" THEN Some(color) ELSE @]
           IN  /\ mode = "pvp" => color = WHITE
               /\ app' = Some(IF mode = "pvc" /\ color = BLACK
                              THEN trigger_ai_move(started)
                              ELSE started)
    /\ UNCHANGED <<pureVars, reviewVars, oracleVars>>

GameMode == ModeOf(App)

\* handle_press lines 665-682 and attempt_move lines 688-708 for a legal
\* move of the side to move; on the engine's turn the move would only be
\* kept as a premove
PlayerMoves ==
    /\ Session
    /\ App.screen = "game"
    /\ App.is_enabled
    /\ ~App.game_over_state
    /\ ~is_game_over(App.logic.board)
    /\ ~is_ai_turn(GameMode, TurnOf(App.logic.board), App.player_color)
    /\ CanSchedule(App)
    /\ \E move \in GameMoves :
           app' = Some(finalize_move(
                           IF App.viewing_history THEN nav_to_end(App) ELSE App,
                           move))
    /\ UNCHANGED <<pureVars, reviewVars, oracleVars>>

\* make_ai_move lines 746-768: a scheduled job fires; the engine answers
\* with a move for the side to move unless the game is over.  The handler
\* ends with the board enabled (lines 767-768) and the animation of the move
\* running; the animation ends before the next event.
MakeAiMove ==
    /\ Session
    /\ App.screen = "game"
    /\ \E job \in App.jobs, move \in GameMoves :
           LET fired ==
                   [App EXCEPT !.jobs = @ \ {job},
                               !.ai_move_job_id = None,
                               !.ai_job_turn = Some(TurnOf(App.logic.board))]
               enabled ==
                   [fired EXCEPT !.is_enabled =
                       IF GameMode = "pvc" \/ fired.game_over_state
                       THEN TRUE ELSE @]
           IN  app' = Some(IF is_game_over(App.logic.board) THEN enabled
                           ELSE finalize_move(enabled, move))
    /\ UNCHANGED <<pureVars, reviewVars, oracleVars>>

\* update_button_states lines 538-542
can_undo(a) ==
    /\ a.logic.board.move_stack # << >>
    /\ ~a.viewing_history
    /\ ~a.game_over_state

can_redo(a) ==
    /\ a.logic.undone_moves # << >>
    /\ ~a.viewing_history
    /\ ~a.game_over_state

RECURSIVE Times(_, _, _)
Times(Op(_), n, logic) ==
    IF n = 0 THEN logic ELSE Times(Op, n - 1, Op(logic).logic)

\* undo_last_move lines 617-635
undo_last_move(a) ==
    LET moves_to_undo ==
            IF a.game_mode = Some("pvc") /\ Len(a.logic.board.move_stack) > 1
            THEN 2 ELSE 1
    IN  IF a.logic.board.move_stack = << >>
        THEN [a EXCEPT !.game_over_state = FALSE]
        ELSE nav_to_end([a EXCEPT
                            !.game_over_state = FALSE,
                            !.logic = Times(undo_move, moves_to_undo, @)])

\* redo_last_move lines 637-654
redo_last_move(a) ==
    LET moves_to_redo ==
            IF a.game_mode = Some("pvc") /\ Len(a.logic.undone_moves) > 1
            THEN 2 ELSE 1
    IN  IF a.logic.undone_moves = << >> THEN a
        ELSE nav_to_end([a EXCEPT
                            !.logic = Times(redo_move, moves_to_redo, @)])

\* the undo button or Control-z while the button is enabled
UndoLastMove ==
    /\ Session
    /\ App.screen = "game"
    /\ can_undo(App)
    /\ app' = Some(undo_last_move(App))
    /\ UNCHANGED <<pureVars, reviewVars, oracleVars>>

RedoLastMove ==
    /\ Session
    /\ App.screen = "game"
    /\ can_redo(App)
    /\ app' = Some(redo_last_move(App))
    /\ UNCHANGED <<pureVars, reviewVars, oracleVars>>

\* update_button_states lines 545-551
can_go_back(a) == Len(a.display_board.move_stack) > 0

can_go_forward(a) ==
    Len(a.display_board.move_stack) < Len(a.logic.board.move_stack)

\* nav_to_start lines 341-350
NavToStart ==
    /\ Session
    /\ App.screen = "game"
    /\ can_go_back(App)
    /\ app' = Some([App EXCEPT !.display_board.move_stack = << >>,
                               !.viewing_history = TRUE])
    /\ UNCHANGED <<pureVars, reviewVars, oracleVars>>

\* nav_prev_move lines 352-362
NavPrevMove ==
    /\ Session
    /\ App.screen = "game"
    /\ can_go_back(App)
    /\ app' = Some([App EXCEPT !.display_board.move_stack = Front(@),
                               !.viewing_history = TRUE])
    /\ UNCHANGED <<pureVars, reviewVars, oracleVars>>

\* nav_next_move lines 364-378
NavNextMove ==
    /\ Session
    /\ App.screen = "game"
    /\ can_go_forward(App)
    /\ LET full_move_list == App.logic.board.move_stack
           current_view_len == Len(App.display_board.move_stack)
           pushed == Append(App.display_board.move_stack,
                            full_move_list[current_view_len + 1])
       IN  app' = Some([App EXCEPT
                           !.display_board.move_stack = pushed,
                           !.viewing_history =
                               Len(pushed) < Len(full_move_list)])
    /\ UNCHANGED <<pureVars, reviewVars, oracleVars>>

\* nav_to_end from its button
NavToEnd ==
    /\ Session
    /\ App.screen = "game"
    /\ can_go_forward(App)
    /\ app' = Some(nav_to_end(App))
    /\ UNCHANGED <<pureVars, reviewVars, oracleVars>>

\* reset_game lines 553-572 with the question answered yes, and
\* create_main_menu
ResetGame ==
    /\ Session
    /\ App.screen = "game"
    /\ app' = Some([App EXCEPT
                       !.jobs = IF App.ai_move_job_id # None
                                THEN @ \ {App.ai_move_job_id[1]} ELSE @,
                       !.ai_move_job_id = None,
                       !.logic = reset(@).logic,
                       !.screen = "menu"])
    /\ UNCHANGED <<pureVars, reviewVars, oracleVars>>

NextGame ==
    \/ StartGameMode
    \/ PlayerMoves
    \/ MakeAiMove
    \/ UndoLastMove
    \/ RedoLastMove
    \/ NavToStart
    \/ NavPrevMove
    \/ NavNextMove
    \/ NavToEnd
    \/ ResetGame

SpecGame == InitGame /\ [][NextGame]_vars

\* C27: against the computer, whenever a scheduled AI-move job fires the
\* side to move on the game board is not the player's colour.
C27_AiMovesForEngineColour ==
    (/\ Session
     /\ App.game_mode = Some("pvc")
     /\ App.ai_job_turn # None)
        => App.ai_job_turn # App.player_color

IsPrefix(s, t) == Len(s) <= Len(t) /\ s = SubSeq(t, 1, Len(s))

\* C28: after every operation of the interface the move list of the board
\* displayed is a prefix of the move list of the game board, and the two are
\* equal whenever viewing_history is false.
C28_DisplayedIsPrefix ==
    Session =>
        /\ IsPrefix(App.display_board.move_stack, App.logic.board.move_stack)
        /\ ~App.viewing_history =>
               App.display_board.move_stack = App.logic.board.move_stack

\* ------------------------------------------------------------------------
\* Calls of convert_top_move_to_cp on the candidates of get_top_moves()
\* ------------------------------------------------------------------------
\* the longest mate distance of a candidate
MaxMatePlies == 3

\* ordinary centipawn evaluations of a candidate
ConvertCps == {-400, -50, 0, 50, 400}

\* dict entries for one key: the key absent, present with None, present
\* with a value
FieldOptions(key, values) ==
    {<< >>} \cup {[k \in {key} |-> None]}
        \cup {[k \in {key} |-> Some(v)] : v \in values}

\* the dicts get_top_moves() returns ('Move' with 'Centipawn' and 'Mate'),
\* dicts lacking one or both keys, the empty dict and the standard format
\* of get_evaluation() that the fallback of line 147 handles
ConvertCandidates ==
    {[Move |-> "e2e4"] @@ cp @@ mate :
         cp \in FieldOptions("Centipawn", ConvertCps),
         mate \in FieldOptions("Mate", -MaxMatePlies .. MaxMatePlies)}
    \cup {<< >>}
    \cup [type : {"cp", "mate"}, value : {-MaxMatePlies, 0, MaxMatePlies}]

InitConvert ==
    /\ \E eval_info \in ConvertCandidates :
           args = [fn |-> "convert_top_move_to_cp", eval_info |-> eval_info]
    /\ ret = None
    /\ frame = None
    /\ IdleReview
    /\ IdleOracle
    /\ IdleApp

ConvertTopMoveToCp ==
    /\ args.fn = "convert_top_move_to_cp"
    /\ ret = None
    /\ ret' = Some(convert_top_move_to_cp(args.eval_info))
    /\ UNCHANGED <<args, frame, reviewVars, oracleVars, appVars>>

NextConvert == ConvertTopMoveToCp

SpecConvert == InitConvert /\ [][NextConvert]_vars

\* ------------------------------------------------------------------------
\* Properties of convert_top_move_to_cp (checked under SpecConvert)
\* ------------------------------------------------------------------------
ConvertDecided == args.fn = "convert_top_move_to_cp" /\ ret # None

\* the key is absent, None or 0
NullZeroAbsent(d, key) ==
    key \notin DOMAIN d \/ d[key] = None \/ d[key] = Some(0)

\* 'Centipawn' present but None and 'Mate' a number other than 0
MateShaped(d) ==
    /\ "Centipawn" \in DOMAIN d
    /\ d.Centipawn = None
    /\ "Mate" \in DOMAIN d
    /\ d.Mate # None
    /\ d.Mate[1] # 0

\* C30: convert_top_move_to_cp maps a candidate whose Centipawn is present
\* but None and whose Mate is n # 0 to sign(n) * (30000 - 100 * |n|), and it
\* returns 0 only when both fields are None, zero or absent.
C30_MateCandidateConverts ==
    ConvertDecided =>
        LET d == args.eval_info
        IN  /\ MateShaped(d) =>
                   ret = Some((IF d.Mate[1] > 0 THEN 1 ELSE -1)
                              * (30000 - 100 * Abs(d.Mate[1])))
            /\ ret = Some(0) =>
                   /\ NullZeroAbsent(d, "Centipawn")
                   /\ NullZeroAbsent(d, "Mate")

====
